---- MODULE Spec2Model ----
(***************************************************************************)
(* A model of the argo-workflows-aws-plugin executor plugin: the           *)
(* template.execute handler, the request validation, the four service      *)
(* back ends (SageMaker Pipelines, Glue, Step Functions, Lambda), the      *)
(* registry ExecutorPlugin.Workflows and the reply written to Argo.        *)
(*                                                                         *)
(* Go values are represented as follows.                                   *)
(*   request fields    TLA+ strings; "" is the empty string                *)
(*   messages, texts   the sequence of the pieces the text is built from;  *)
(*                     << >> is the empty string                           *)
(*   *T (pointer)      a sequence: << >> is nil, <<v>> points to v         *)
(*   error             a pointer to its text: << >> is a nil error         *)
(*   execution id      a sequence: << >> is the empty string, <<svc, n>>   *)
(*                     the n-th id handed out by service svc               *)
(*   json.Marshal(x)   the text Descriptor(x)                              *)
(***************************************************************************)
EXTENDS Integers, Sequences, FiniteSets, TLC

VARIABLES
    Workflows,   \* ExecutorPlugin.Workflows: workflow id -> *PluginWorkflow (<< >> = no entry)
    heap,        \* the PluginWorkflow objects allocated so far, by address
    lockHolder,  \* per PluginWorkflow object, who holds its mutex
    runner,      \* per PluginWorkflow object, the goroutine InvokeLambdaFunctionAsync
    handler,     \* per serving goroutine: the position and locals of handleTemplateExecute
                 \* (ops: history, the collaborator operations the request has performed)
    starts,      \* history: per workflow id, the ids successful start calls returned
    failedStarts,\* history: the workflow ids a start call has failed for
    recorded,    \* history: per workflow id, the ids written into Workflows
    nextExec,    \* the collaborator's counter of execution ids handed out
    nreq,        \* number of requests received so far
    crashed,     \* the Go runtime threw a fatal error (the process is gone)
    fin,         \* input of the pure-function specifications
    fout,        \* output of the pure-function specifications
    native       \* SpecPoll: the status token the service now reports for the execution
                 \* of the step (elsewhere each poll draws its token)

vars == <<Workflows, heap, lockHolder, runner, handler, starts, failedStarts, recorded,
          nextExec, nreq, crashed, fin, fout, native>>

(* No execution of the step is known to the service. *)
NotStarted == ""

-----------------------------------------------------------------------------
(* Bounds of the model. *)

MaxRequests == 2

MaxStatus == 4

Handlers == {"h1", "h2"}

WorkflowIDs == {"wf-a", "wf-b"}

-----------------------------------------------------------------------------
(* Go representation helpers. *)

NilPtr == << >>

Ptr(v) == <<v>>

EmptyText == << >>

Text(s) == <<s>>

EmptyID == << >>

NoError == NilPtr

(* fmt.Errorf(format, text) and error.Error(). *)
Errorf(format, text) == Ptr(<<format>> \o text)

ErrorText(e) == e[1]

(* json.Marshal of a collaborator's output. *)
Descriptor(what) == <<"json:", what>>

(* The text of an error returned by the AWS SDK. *)
AwsError == <<"aws error">>

Seconds(n) == n

-----------------------------------------------------------------------------
(* request.go *)

SageMaker == "amazon_sagemaker_pipelines"

Glue == "aws_glue"

StepFunctions == "aws_step_functions"

Lambda == "aws_lambda"

allowedServiceNames == {SageMaker, Glue, StepFunctions, Lambda}

allowedMockStates == {"running", "success"}

allowedActions == {"validate", "execute"}

PollServices == {SageMaker, Glue, StepFunctions}

(* fmt.Sprintf of the four ARN templates, kept as the list of its pieces. *)
SageMakerArn(req) ==
    <<"arn:aws:sagemaker:", req.RegionName, ":", req.AccountID, ":pipeline/", req.PipelineName>>

GlueArn(req) ==
    <<"arn:aws:glue:", req.RegionName, ":", req.AccountID, ":job/", req.JobName>>

StepFunctionArn(req) ==
    <<"arn:aws:states:", req.RegionName, ":", req.AccountID, ":stateMachine:", req.StepFunctionName>>

LambdaArn(req) ==
    <<"arn:aws:lambda:", req.RegionName, ":", req.AccountID, ":function:", req.LambdaFunctionName>>

(* Validate without the test of the step function name. *)
ValidateNoStepFunctionName(req) ==
    IF req.AccountID = "" THEN [err |-> Ptr(<<"account_id is empty">>), req |-> req]
    ELSE IF req.ServiceName = "" THEN [err |-> Ptr(<<"service is empty">>), req |-> req]
    ELSE IF req.Action = "" THEN [err |-> Ptr(<<"action is empty">>), req |-> req]
    ELSE IF req.RegionName = "" THEN [err |-> Ptr(<<"region name is empty">>), req |-> req]
    ELSE IF req.ServiceName \notin allowedServiceNames
        THEN [err |-> Ptr(<<"service '", req.ServiceName, "' is not supported">>), req |-> req]
    ELSE IF req.Action \notin allowedActions
        THEN [err |-> Ptr(<<"action '", req.Action, "' is not supported">>), req |-> req]
    ELSE IF req.ServiceName = SageMaker /\ req.PipelineName = ""
        THEN [err |-> Ptr(<<"pipeline_name is empty">>), req |-> req]
    ELSE IF req.ServiceName = Glue /\ req.JobName = ""
        THEN [err |-> Ptr(<<"job_name is empty">>), req |-> req]
    ELSE IF req.ServiceName = Lambda /\ req.LambdaFunctionName = ""
        THEN [err |-> Ptr(<<"lambda_function_name is empty">>), req |-> req]
    ELSE LET arn == CASE req.ServiceName = SageMaker -> SageMakerArn(req)
                      [] req.ServiceName = Glue -> GlueArn(req)
                      [] req.ServiceName = StepFunctions -> StepFunctionArn(req)
                      [] req.ServiceName = Lambda -> LambdaArn(req)
             r2 == [req EXCEPT !.ResourceArn = arn]
         IN  IF req.Mock /\ req.MockState = ""
                 THEN [err |-> Ptr(<<"mock state is empty">>), req |-> r2]
             ELSE IF req.Mock /\ req.MockState \notin allowedMockStates
                 THEN [err |-> Ptr(<<"mock state '", req.MockState, "' is not supported">>),
                       req |-> r2]
             ELSE [err |-> NoError, req |-> r2]

(* Validate deriving the identifier only when the request carries none. *)
ValidateKeepsSuppliedArn(req) ==
    IF req.AccountID = "" THEN [err |-> Ptr(<<"account_id is empty">>), req |-> req]
    ELSE IF req.ServiceName = "" THEN [err |-> Ptr(<<"service is empty">>), req |-> req]
    ELSE IF req.Action = "" THEN [err |-> Ptr(<<"action is empty">>), req |-> req]
    ELSE IF req.RegionName = "" THEN [err |-> Ptr(<<"region name is empty">>), req |-> req]
    ELSE IF req.ServiceName \notin allowedServiceNames
        THEN [err |-> Ptr(<<"service '", req.ServiceName, "' is not supported">>), req |-> req]
    ELSE IF req.Action \notin allowedActions
        THEN [err |-> Ptr(<<"action '", req.Action, "' is not supported">>), req |-> req]
    ELSE IF req.ServiceName = SageMaker /\ req.PipelineName = ""
        THEN [err |-> Ptr(<<"pipeline_name is empty">>), req |-> req]
    ELSE IF req.ServiceName = Glue /\ req.JobName = ""
        THEN [err |-> Ptr(<<"job_name is empty">>), req |-> req]
    ELSE IF req.ServiceName = StepFunctions /\ req.StepFunctionName = ""
        THEN [err |-> Ptr(<<"step_function_name is empty">>), req |-> req]
    ELSE IF req.ServiceName = Lambda /\ req.LambdaFunctionName = ""
        THEN [err |-> Ptr(<<"lambda_function_name is empty">>), req |-> req]
    ELSE LET arn == CASE req.ServiceName = SageMaker -> SageMakerArn(req)
                      [] req.ServiceName = Glue -> GlueArn(req)
                      [] req.ServiceName = StepFunctions -> StepFunctionArn(req)
                      [] req.ServiceName = Lambda -> LambdaArn(req)
             r2 == [req EXCEPT !.ResourceArn = IF req.ResourceArn = << >> THEN arn ELSE req.ResourceArn]
         IN  IF req.Mock /\ req.MockState = ""
                 THEN [err |-> Ptr(<<"mock state is empty">>), req |-> r2]
             ELSE IF req.Mock /\ req.MockState \notin allowedMockStates
                 THEN [err |-> Ptr(<<"mock state '", req.MockState, "' is not supported">>),
                       req |-> r2]
             ELSE [err |-> NoError, req |-> r2]

(* PluginRequest.Validate: the error returned and the request as the     *)
(* method leaves it (ResourceArn is assigned before the mock checks).      *)
Validate(req) ==
    IF req.AccountID = "" THEN [err |-> Ptr(<<"account_id is empty">>), req |-> req]
    ELSE IF req.ServiceName = "" THEN [err |-> Ptr(<<"service is empty">>), req |-> req]
    ELSE IF req.Action = "" THEN [err |-> Ptr(<<"action is empty">>), req |-> req]
    ELSE IF req.RegionName = "" THEN [err |-> Ptr(<<"region name is empty">>), req |-> req]
    ELSE IF req.ServiceName \notin allowedServiceNames
        THEN [err |-> Ptr(<<"service '", req.ServiceName, "' is not supported">>), req |-> req]
    ELSE IF req.Action \notin allowedActions
        THEN [err |-> Ptr(<<"action '", req.Action, "' is not supported">>), req |-> req]
    ELSE IF req.ServiceName = SageMaker /\ req.PipelineName = ""
        THEN [err |-> Ptr(<<"pipeline_name is empty">>), req |-> req]
    ELSE IF req.ServiceName = Glue /\ req.JobName = ""
        THEN [err |-> Ptr(<<"job_name is empty">>), req |-> req]
    ELSE IF req.ServiceName = StepFunctions /\ req.StepFunctionName = ""
        THEN [err |-> Ptr(<<"step_function_name is empty">>), req |-> req]
    ELSE IF req.ServiceName = Lambda /\ req.LambdaFunctionName = ""
        THEN [err |-> Ptr(<<"lambda_function_name is empty">>), req |-> req]
    ELSE LET arn == CASE req.ServiceName = SageMaker -> SageMakerArn(req)
                      [] req.ServiceName = Glue -> GlueArn(req)
                      [] req.ServiceName = StepFunctions -> StepFunctionArn(req)
                      [] req.ServiceName = Lambda -> LambdaArn(req)
             r2 == [req EXCEPT !.ResourceArn = arn]
         IN  IF req.Mock /\ req.MockState = ""
                 THEN [err |-> Ptr(<<"mock state is empty">>), req |-> r2]
             ELSE IF req.Mock /\ req.MockState \notin allowedMockStates
                 THEN [err |-> Ptr(<<"mock state '", req.MockState, "' is not supported">>),
                       req |-> r2]
             ELSE [err |-> NoError, req |-> r2]

-----------------------------------------------------------------------------
(* error.go: GenericError.WithArgs with one argument. The argument is nil, *)
(* an error or a string.                                                   *)

ArgNil == [kind |-> "nil", text |-> EmptyText]

ArgError(e) == IF e = NoError THEN ArgNil ELSE [kind |-> "error", text |-> ErrorText(e)]

ArgString(s) == [kind |-> "string", text |-> <<s>>]

WithArgs(format, arg) ==
    IF arg.kind = "nil" THEN NoError ELSE Ptr(<<format>> \o arg.text)

ErrMalformedRequest == "malformed request: %s"

ErrUnsupportedContentType == "content type header value is unsupported"

ErrRequestReaderError == "failed to read request body: %v"

ErrRequestParserError == "failed to parse request body: %v"

ErrRequestInputMalformedError == "malformed plugin input: %v"

ErrExecutionError == "failed execution: %v"

-----------------------------------------------------------------------------
(* response.go: PluginResponse, and the zero value &PluginResponse{}. *)

PluginResponse(msg, status, requeue, dur, reqErr, execErr) ==
    [Message |-> msg, Status |-> status, ShouldRequeue |-> requeue,
     RequeueDuration |-> dur, RequestError |-> reqErr, ExecutionError |-> execErr]

ZeroResponse == PluginResponse(EmptyText, 0, FALSE, NilPtr, NoError, NoError)

(* &PluginResponse{ExecutionError: fmt.Errorf(format, err), Status: status} *)
ExecFailure(format, status) ==
    PluginResponse(EmptyText, status, FALSE, NilPtr, NoError, Errorf(format, AwsError))

(* &PluginResponse{ExecutionError: fmt.Errorf(text), Status: status} *)
ExecFailureText(text, status) ==
    PluginResponse(EmptyText, status, FALSE, NilPtr, NoError, Ptr(<<text>>))

(* &PluginResponse{Message: msg, Status: status} *)
Finished(msg, status) == PluginResponse(msg, status, FALSE, NilPtr, NoError, NoError)

(* &PluginResponse{Message: msg, ShouldRequeue: true, RequeueDuration: secs, Status: 3} *)
Requeued(msg, secs) == PluginResponse(msg, 3, TRUE, Ptr(Seconds(secs)), NoError, NoError)

-----------------------------------------------------------------------------
(* The outcomes of a collaborator call as the service functions see them:  *)
(* session.NewSession failed, the call failed, json.Marshal of the output  *)
(* failed, or the call returned its output.                                *)

CallOutcomes == {"ok", "session_error", "call_error", "pack_error"}

(* workflow.go: &PluginWorkflow{ID: id} leaves Status and Message empty. *)
PluginWorkflow(id, status, message) == [ID |-> id, Status |-> status, Message |-> message]

-----------------------------------------------------------------------------
(* aws_glue.go *)

CheckIfGlueJobExists(outcome) ==
    CASE outcome = "session_error" -> ExecFailure("failed to create aws session: ", 2)
      [] outcome = "call_error" -> ExecFailure("failed to describe aws glue job: ", 2)
      [] outcome = "pack_error" -> ExecFailure("failed to pack aws glue job check response: ", 2)
      [] OTHER -> Finished(Descriptor("GetJobOutput"), 1)

(* StartGlueJobExecution storing a record that lacks the job run id. *)
StartGlueJobExecutionNoID(outcome, jobRunID) ==
    IF outcome = "ok" /\ jobRunID # EmptyID
    THEN [resp |-> Requeued(Descriptor("StartJobRunOutput"), 60),
          store |-> Ptr(PluginWorkflow(EmptyID, "", EmptyText))]
    ELSE [resp |-> ExecFailure("failed to start aws glue job: ", 2), store |-> NilPtr]

(* The response, and what is stored in ex.Workflows[workflowID] (nil: nothing). *)
StartGlueJobExecution(outcome, jobRunID) ==
    CASE outcome = "session_error" ->
            [resp |-> ExecFailure("failed to create aws session: ", 0), store |-> NilPtr]
      [] outcome = "call_error" ->
            [resp |-> ExecFailure("failed to start aws glue job: ", 2), store |-> NilPtr]
      [] outcome = "pack_error" ->
            [resp |-> ExecFailure("failed to pack aws glue job start response: ", 2),
             store |-> NilPtr]
      [] OTHER ->
            IF jobRunID = EmptyID
            THEN [resp |-> ExecFailureText("aws glue job start response has no job run id", 2),
                  store |-> NilPtr]
            ELSE [resp |-> Requeued(Descriptor("StartJobRunOutput"), 60),
                  store |-> Ptr(PluginWorkflow(jobRunID, "", EmptyText))]

(* The switch on the job run state with a default branch that fails. *)
GlueRunStateResponseStrict(state) ==
    CASE state = "SUCCEEDED" -> Finished(Descriptor("GetJobRunOutput"), 1)
      [] state \in {"STARTING", "RUNNING", "STOPPING", "WAITING"} ->
            Requeued(Descriptor("GetJobRunOutput"), 60)
      [] OTHER -> Finished(Descriptor("GetJobRunOutput"), 2)

(* The switch on *output.JobRun.JobRunState. *)
GlueRunStateResponse(state) ==
    CASE state = "SUCCEEDED" -> Finished(Descriptor("GetJobRunOutput"), 1)
      [] state \in {"STOPPED", "FAILED", "ERROR", "TIMEOUT"} ->
            Finished(Descriptor("GetJobRunOutput"), 2)
      [] OTHER -> Requeued(Descriptor("GetJobRunOutput"), 60)

CheckGlueJobExecution(outcome, state) ==
    CASE outcome = "session_error" -> ExecFailure("failed to create aws session: ", 2)
      [] outcome = "call_error" -> ExecFailure("failed to get aws glue job run: ", 2)
      [] outcome = "pack_error" ->
            ExecFailure("failed to pack aws glue job execution response: ", 2)
      [] OTHER -> GlueRunStateResponse(state)

-----------------------------------------------------------------------------
(* aws_step_function.go *)

CheckIfStepFunctionExists(outcome) ==
    CASE outcome = "session_error" -> ExecFailure("failed to create aws session: ", 2)
      [] outcome = "call_error" -> ExecFailure("failed to describe aws step function: ", 2)
      [] outcome = "pack_error" ->
            ExecFailure("failed to pack aws step function check response: ", 2)
      [] OTHER -> Finished(Descriptor("DescribeStateMachineOutput"), 1)

(* StartStepFunctionExecution without the test for an empty execution ARN. *)
StartStepFunctionExecutionNoCheck(outcome, executionArn) ==
    IF outcome = "ok"
    THEN [resp |-> Requeued(Descriptor("StartExecutionOutput"), 60),
          store |-> Ptr(PluginWorkflow(executionArn, "", EmptyText))]
    ELSE [resp |-> ExecFailure("failed to start aws step function: ", 2), store |-> NilPtr]

StartStepFunctionExecution(outcome, executionArn) ==
    CASE outcome = "session_error" ->
            [resp |-> ExecFailure("failed to create aws session: ", 0), store |-> NilPtr]
      [] outcome = "call_error" ->
            [resp |-> ExecFailure("failed to start aws step function: ", 2), store |-> NilPtr]
      [] outcome = "pack_error" ->
            [resp |-> ExecFailure("failed to pack aws step function start response: ", 2),
             store |-> NilPtr]
      [] OTHER ->
            IF executionArn = EmptyID
            THEN [resp |-> ExecFailureText(
                              "aws step function start response has no execution ARN", 2),
                  store |-> NilPtr]
            ELSE [resp |-> Requeued(Descriptor("StartExecutionOutput"), 60),
                  store |-> Ptr(PluginWorkflow(executionArn, "", EmptyText))]

(* The switch on *output.Status. *)
StepFunctionStatusResponse(status) ==
    CASE status = "SUCCEEDED" -> Finished(Descriptor("DescribeExecutionOutput"), 1)
      [] status \in {"TIMED_OUT", "FAILED", "ABORTED"} ->
            Finished(Descriptor("DescribeExecutionOutput"), 2)
      [] OTHER -> Requeued(Descriptor("DescribeExecutionOutput"), 60)

CheckStepFunctionExecution(outcome, status) ==
    CASE outcome = "session_error" -> ExecFailure("failed to create aws session: ", 2)
      [] outcome = "call_error" ->
            ExecFailure("failed to describe aws step function execution: ", 2)
      [] outcome = "pack_error" ->
            ExecFailure("failed to pack aws step function execution response: ", 2)
      [] OTHER -> StepFunctionStatusResponse(status)

-----------------------------------------------------------------------------
(* amazon_sagemaker_pipelines.go, in the version plugin.go calls           *)
(* (StartSageMakerPipelineExecution takes the workflow id).                *)

(* CheckIfSageMakerPipelineExists leaving Status unset, as the version of  *)
(* the file that precedes the Status field does.                           *)
CheckIfSageMakerPipelineExistsNoStatus(outcome) ==
    IF outcome = "ok"
    THEN Finished(Descriptor("DescribePipelineOutput"), 0)
    ELSE ExecFailure("failed to describe amazon sagemaker pipeline: ", 0)

CheckIfSageMakerPipelineExists(outcome) ==
    CASE outcome = "session_error" -> ExecFailure("failed to create aws session: ", 2)
      [] outcome = "call_error" ->
            ExecFailure("failed to describe amazon sagemaker pipeline: ", 2)
      [] outcome = "pack_error" ->
            ExecFailure("failed to pack amazon sagemaker pipeline check response: ", 2)
      [] OTHER -> Finished(Descriptor("DescribePipelineOutput"), 1)

StartSageMakerPipelineExecution(outcome, executionArn) ==
    CASE outcome = "session_error" ->
            [resp |-> ExecFailure("failed to create aws session: ", 0), store |-> NilPtr]
      [] outcome = "call_error" ->
            [resp |-> ExecFailure("failed to start amazon sagemaker pipeline: ", 2),
             store |-> NilPtr]
      [] outcome = "pack_error" ->
            [resp |-> ExecFailure(
                         "failed to pack amazon sagemaker pipeline start response: ", 2),
             store |-> NilPtr]
      [] OTHER ->
            IF executionArn = EmptyID
            THEN [resp |-> ExecFailureText(
                              "amazon sagemaker pipeline start response has no execution ARN", 2),
                  store |-> NilPtr]
            ELSE [resp |-> Requeued(Descriptor("StartPipelineExecutionOutput"), 60),
                  store |-> Ptr(PluginWorkflow(executionArn, "", EmptyText))]

(* The switch comparing the status pointer with fresh pointers: no case  *)
(* matches and the default branch answers.                                *)
SageMakerStatusResponseByPointer(status) ==
    Finished(Descriptor("DescribePipelineExecutionOutput"), 3)

(* The switch on *output.PipelineExecutionStatus. *)
SageMakerStatusResponse(status) ==
    CASE status = "Succeeded" -> Finished(Descriptor("DescribePipelineExecutionOutput"), 1)
      [] status \in {"Stopped", "Failed"} ->
            Finished(Descriptor("DescribePipelineExecutionOutput"), 2)
      [] OTHER -> Requeued(Descriptor("DescribePipelineExecutionOutput"), 60)

CheckSageMakerPipelineExecution(outcome, status) ==
    CASE outcome = "session_error" -> ExecFailure("failed to create aws session: ", 2)
      [] outcome = "call_error" ->
            ExecFailure("failed to describe amazon sagemaker pipeline execution: ", 2)
      [] outcome = "pack_error" ->
            ExecFailure("failed to pack amazon sagemaker pipeline execution response: ", 2)
      [] OTHER -> SageMakerStatusResponse(status)

-----------------------------------------------------------------------------
(* aws_lambda.go *)

CheckIfLambdaFunctionExists(outcome) ==
    CASE outcome = "session_error" -> ExecFailure("failed to create aws session: ", 2)
      [] outcome = "call_error" -> ExecFailure("failed to describe aws lambda function: ", 2)
      [] outcome = "pack_error" ->
            ExecFailure("failed to pack aws lambda function check response: ", 2)
      [] OTHER -> Finished(Descriptor("GetFunctionOutput"), 1)

(* The record StartLambdaFunctionExecution creates, and its response. *)
NewLambdaWorkflow ==
    PluginWorkflow(EmptyID, "RUNNING", Text("running aws lambda function async execution"))

(* StartLambdaFunctionExecution answering with the requeue of the polled services. *)
StartLambdaFunctionExecutionSlow ==
    [resp |-> Requeued(Text("started aws lambda function async execution"), 60),
     store |-> Ptr(NewLambdaWorkflow)]

StartLambdaFunctionExecution ==
    [resp |-> Requeued(Text("started aws lambda function async execution"), 5),
     store |-> Ptr(NewLambdaWorkflow)]

(* The switch on wf.Status, under the record's lock. *)
CheckLambdaFunctionExecution(wf) ==
    CASE wf.Status = "SUCCEEDED" -> Finished(wf.Message, 1)
      [] wf.Status = "FAILED" -> Finished(wf.Message, 2)
      [] OTHER -> Requeued(wf.Message, 5)

(* What InvokeLambdaFunctionAsync writes to the record for each outcome of *)
(* its steps (session, payload marshalling, Invoke, result marshalling),   *)
(* and for a panic whose value is an error, which the deferred function    *)
(* recovers.                                                               *)
InvokeOutcomes ==
    {"ok", "session_error", "payload_error", "call_error", "pack_error", "panic_error"}

(* The values a panic in the goroutine may carry: an error (a runtime      *)
(* error such as a nil dereference) or a value of another type (a string). *)
PanicValues == {"error", "string"}

(* The deferred function: err := r.(error). The assertion holds for an     *)
(* error and panics again for any other value.                             *)
Recovers(value) == value = "error"

InvokeLambdaFunctionAsync(outcome) ==
    CASE outcome = "panic_error" ->
            [Status |-> "FAILED", Message |-> <<"runtime error">>]
      [] outcome = "session_error" ->
            [Status |-> "FAILED", Message |-> <<"failed to create aws session: ">> \o AwsError]
      [] outcome = "payload_error" ->
            [Status |-> "FAILED",
             Message |-> <<"failed to build aws lambda invocation payload: ">> \o AwsError]
      [] outcome = "call_error" ->
            [Status |-> "FAILED", Message |-> <<"aws lambda invocation failed: ">> \o AwsError]
      [] outcome = "pack_error" ->
            [Status |-> "FAILED",
             Message |-> <<"failed to pack aws lambda invocation response: ">> \o AwsError]
      [] OTHER -> [Status |-> "SUCCEEDED", Message |-> Descriptor("InvokeOutput")]

-----------------------------------------------------------------------------
(* plugin.go: the deferred function of handleTemplateExecute, which turns  *)
(* the PluginResponse into the HTTP reply. A reply is the HTTP status      *)
(* code, the node result (nil when no body is written) and the requeue     *)
(* duration.                                                               *)

Reply(code, node, requeue) == [code |-> code, node |-> node, requeue |-> requeue]

NodeResult(phase, message) == [phase |-> phase, message |-> message]

NoReply == Reply(0, NilPtr, NilPtr)

ErrorMessage(resp, fallback) ==
    IF resp.Message # EmptyText THEN resp.Message
    ELSE IF resp.ExecutionError # NoError THEN ErrorText(resp.ExecutionError)
    ELSE Text(fallback)

(* The deferred function with a default branch that reports success. *)
BuildReplyUnknownSucceeds(resp) ==
    IF resp.RequestError # NoError THEN Reply(400, NilPtr, NilPtr)
    ELSE CASE resp.Status = 2 ->
                Reply(200, Ptr(NodeResult("Error", ErrorMessage(resp, "error"))),
                      resp.RequeueDuration)
           [] resp.Status = 3 ->
                Reply(200,
                      Ptr(NodeResult("Running",
                             IF resp.Message = EmptyText THEN Text("running") ELSE resp.Message)),
                      IF resp.RequeueDuration = NilPtr
                          THEN Ptr(Seconds(60)) ELSE resp.RequeueDuration)
           [] OTHER ->
                Reply(200,
                      Ptr(NodeResult("Succeeded",
                             IF resp.Message = EmptyText THEN Text("success") ELSE resp.Message)),
                      resp.RequeueDuration)

(* The deferred function without the default requeue of a running response. *)
BuildReplyNoDefaultRequeue(resp) ==
    IF resp.RequestError # NoError THEN Reply(400, NilPtr, NilPtr)
    ELSE CASE resp.Status = 1 ->
                Reply(200,
                      Ptr(NodeResult("Succeeded",
                             IF resp.Message = EmptyText THEN Text("success") ELSE resp.Message)),
                      resp.RequeueDuration)
           [] resp.Status = 2 ->
                Reply(200, Ptr(NodeResult("Error", ErrorMessage(resp, "error"))),
                      resp.RequeueDuration)
           [] resp.Status = 3 ->
                Reply(200,
                      Ptr(NodeResult("Running",
                             IF resp.Message = EmptyText THEN Text("running") ELSE resp.Message)),
                      resp.RequeueDuration)
           [] OTHER ->
                Reply(200, Ptr(NodeResult("Error", ErrorMessage(resp, "unknown error"))),
                      resp.RequeueDuration)

BuildReply(resp) ==
    IF resp.RequestError # NoError THEN Reply(400, NilPtr, NilPtr)
    ELSE CASE resp.Status = 1 ->
                Reply(200,
                      Ptr(NodeResult("Succeeded",
                             IF resp.Message = EmptyText THEN Text("success") ELSE resp.Message)),
                      resp.RequeueDuration)
           [] resp.Status = 2 ->
                Reply(200, Ptr(NodeResult("Error", ErrorMessage(resp, "error"))),
                      resp.RequeueDuration)
           [] resp.Status = 3 ->
                Reply(200,
                      Ptr(NodeResult("Running",
                             IF resp.Message = EmptyText THEN Text("running") ELSE resp.Message)),
                      IF resp.RequeueDuration = NilPtr
                          THEN Ptr(Seconds(60)) ELSE resp.RequeueDuration)
           [] OTHER ->
                Reply(200, Ptr(NodeResult("Error", ErrorMessage(resp, "unknown error"))),
                      resp.RequeueDuration)

-----------------------------------------------------------------------------
(* The requests the model sends. An inbound request is the HTTP method,    *)
(* the Content-Type header, how far the body parses, the workflow uid and  *)
(* the value under the plugin key "awf-aws-plugin".                        *)

Account == "100000000002"

Region == "us-west-2"

PluginRequest(svc, action, pipeline, job, stepfn, lambda, mock, mockState) ==
    [AccountID |-> Account, ServiceName |-> svc, Action |-> action,
     PipelineName |-> pipeline, JobName |-> job, StepFunctionName |-> stepfn,
     LambdaFunctionName |-> lambda, RegionName |-> Region,
     Mock |-> mock, MockState |-> mockState, ResourceArn |-> << >>]

(* The request of the workflow templates under assets/: one name field,    *)
(* the one of the service.                                                 *)
TemplateRequest(svc, action, mock, mockState) ==
    PluginRequest(svc, action,
                  IF svc = SageMaker THEN "MyPipeline" ELSE "",
                  IF svc = Glue THEN "MyJob" ELSE "",
                  IF svc = StepFunctions THEN "MyStepFunction" ELSE "",
                  IF svc = Lambda THEN "MyFunction" ELSE "",
                  mock, mockState)

Inbound(method, ctype, body, hasWorkflow, hasTemplate, uid, hasKey, input) ==
    [Method |-> method, ContentType |-> ctype, Body |-> body,
     HasWorkflow |-> hasWorkflow, HasTemplate |-> hasTemplate, Uid |-> uid,
     HasPluginKey |-> hasKey, Input |-> input]

WellFormed(uid, input) ==
    Inbound("POST", "application/json", "parsed", TRUE, TRUE, uid, TRUE, input)

Malformed(method, ctype, body, hasWorkflow, hasKey) ==
    Inbound(method, ctype, body, hasWorkflow, TRUE, "wf-a", hasKey,
            TemplateRequest(Glue, "execute", FALSE, ""))

(* execute for every service on the first workflow and for one poll-based  *)
(* service and Lambda on the second; validate for every service; the mock  *)
(* requests of every service and action; requests that fail validation;    *)
(* the malformed requests.                                                 *)
InboundRequests ==
    {WellFormed("wf-a", TemplateRequest(svc, action, FALSE, "")) :
        svc \in allowedServiceNames, action \in allowedActions}
    \cup {WellFormed("wf-b", TemplateRequest(svc, "execute", FALSE, "")) :
              svc \in {Glue, Lambda}}
    \cup {WellFormed("wf-a", TemplateRequest(svc, action, TRUE, ms)) :
              svc \in allowedServiceNames, action \in allowedActions,
              ms \in {"success", "running"}}
    \cup {WellFormed("wf-b", TemplateRequest(Lambda, "execute", TRUE, "running")),
          WellFormed("wf-a", TemplateRequest(Glue, "execute", TRUE, "error")),
          WellFormed("wf-a", TemplateRequest(Glue, "execute", TRUE, "")),
          WellFormed("wf-a", PluginRequest(Glue, "execute", "", "", "", "", FALSE, "")),
          Malformed("GET", "application/json", "parsed", TRUE, TRUE),
          Malformed("POST", "text/plain", "parsed", TRUE, TRUE),
          Malformed("POST", "application/json", "unreadable", TRUE, TRUE),
          Malformed("POST", "application/json", "unparsable", TRUE, TRUE),
          Malformed("POST", "application/json", "parsed", FALSE, TRUE),
          Malformed("POST", "application/json", "parsed", TRUE, FALSE)}

-----------------------------------------------------------------------------
(* plugin.go: handleTemplateExecute up to the dispatch on the service      *)
(* name. The result is the PluginResponse so far, whether the handler has  *)
(* returned, and the validated plugin input.                               *)

Rejected(reqErr) ==
    [returned |-> TRUE,
     resp |-> PluginResponse(EmptyText, 2, FALSE, NilPtr, reqErr, NoError),
     input |-> NilPtr]

(* The mock switch with the numbers of the enumeration of status.go. *)
MockResponseByEnum(mockState) ==
    CASE mockState = "success" ->
            PluginResponse(EmptyText, 1, FALSE, NilPtr, NoError, NoError)
      [] mockState = "error" ->
            PluginResponse(EmptyText, 3, FALSE, NilPtr, NoError,
                           WithArgs(ErrExecutionError, ArgString("expected mock error")))
      [] mockState = "running" ->
            PluginResponse(EmptyText, 2, TRUE, NilPtr, NoError, NoError)

(* The mock switch whose running branch does not set ShouldRequeue. *)
MockResponseNoRequeue(mockState) ==
    CASE mockState = "success" ->
            PluginResponse(EmptyText, 1, FALSE, NilPtr, NoError, NoError)
      [] mockState = "error" ->
            PluginResponse(EmptyText, 2, FALSE, NilPtr, NoError,
                           WithArgs(ErrExecutionError, ArgString("expected mock error")))
      [] mockState = "running" ->
            PluginResponse(EmptyText, 3, FALSE, NilPtr, NoError, NoError)

MockResponse(mockState) ==
    CASE mockState = "success" ->
            PluginResponse(EmptyText, 1, FALSE, NilPtr, NoError, NoError)
      [] mockState = "error" ->
            PluginResponse(EmptyText, 2, FALSE, NilPtr, NoError,
                           WithArgs(ErrExecutionError, ArgString("expected mock error")))
      [] mockState = "running" ->
            PluginResponse(EmptyText, 3, TRUE, NilPtr, NoError, NoError)

(* The handler whose mock switch has the success branch only: a running   *)
(* mock request falls through to the dispatch.                             *)
AdmitMockSuccessOnly(r) ==
    IF r.Method # "POST"
        THEN Rejected(WithArgs(ErrMalformedRequest, ArgString("method is not POST")))
    ELSE IF r.ContentType # "application/json"
        THEN Rejected(Ptr(<<ErrUnsupportedContentType>>))
    ELSE IF r.Body = "unreadable"
        THEN Rejected(WithArgs(ErrRequestReaderError, ArgError(Ptr(<<"read error">>))))
    ELSE IF r.Body = "unparsable"
        THEN Rejected(WithArgs(ErrRequestParserError, ArgError(Ptr(<<"syntax error">>))))
    ELSE IF ~r.HasWorkflow \/ ~r.HasTemplate
        THEN Rejected(WithArgs(ErrRequestParserError, ArgError(NoError)))
    ELSE IF ~r.HasPluginKey
        THEN Rejected(WithArgs(ErrRequestInputMalformedError,
                               ArgString("plugin input not found")))
    ELSE LET v == Validate(r.Input) IN
         IF v.err # NoError
             THEN Rejected(WithArgs(ErrRequestInputMalformedError, ArgError(v.err)))
         ELSE IF v.req.Mock /\ v.req.MockState = "success"
             THEN [returned |-> TRUE, resp |-> MockResponse(v.req.MockState),
                   input |-> Ptr(v.req)]
         ELSE [returned |-> FALSE, resp |-> ZeroResponse, input |-> Ptr(v.req)]

(* The admission with the mock switch ahead of the validation. *)
AdmitMockFirst(r) ==
    IF r.Method # "POST"
        THEN Rejected(WithArgs(ErrMalformedRequest, ArgString("method is not POST")))
    ELSE IF r.ContentType # "application/json"
        THEN Rejected(Ptr(<<ErrUnsupportedContentType>>))
    ELSE IF r.Body = "unreadable"
        THEN Rejected(WithArgs(ErrRequestReaderError, ArgError(Ptr(<<"read error">>))))
    ELSE IF r.Body = "unparsable"
        THEN Rejected(WithArgs(ErrRequestParserError, ArgError(Ptr(<<"syntax error">>))))
    ELSE IF ~r.HasWorkflow \/ ~r.HasTemplate
        THEN Rejected(WithArgs(ErrRequestParserError, ArgError(NoError)))
    ELSE IF ~r.HasPluginKey
        THEN Rejected(WithArgs(ErrRequestInputMalformedError,
                               ArgString("plugin input not found")))
    ELSE IF r.Input.Mock /\ r.Input.MockState \in {"success", "error", "running"}
        THEN [returned |-> TRUE, resp |-> MockResponse(r.Input.MockState),
              input |-> Ptr(r.Input)]
    ELSE LET v == Validate(r.Input) IN
         IF v.err # NoError
             THEN Rejected(WithArgs(ErrRequestInputMalformedError, ArgError(v.err)))
         ELSE [returned |-> FALSE, resp |-> ZeroResponse, input |-> Ptr(v.req)]

(* The admission without the call of Validate: a request whose input is    *)
(* not valid goes on to the dispatch.                                      *)
AdmitUnvalidated(r) ==
    IF r.Method # "POST"
        THEN Rejected(WithArgs(ErrMalformedRequest, ArgString("method is not POST")))
    ELSE IF r.ContentType # "application/json"
        THEN Rejected(Ptr(<<ErrUnsupportedContentType>>))
    ELSE IF r.Body = "unreadable"
        THEN Rejected(WithArgs(ErrRequestReaderError, ArgError(Ptr(<<"read error">>))))
    ELSE IF r.Body = "unparsable"
        THEN Rejected(WithArgs(ErrRequestParserError, ArgError(Ptr(<<"syntax error">>))))
    ELSE IF ~r.HasWorkflow \/ ~r.HasTemplate
        THEN Rejected(WithArgs(ErrRequestParserError, ArgError(NoError)))
    ELSE IF ~r.HasPluginKey
        THEN Rejected(WithArgs(ErrRequestInputMalformedError,
                               ArgString("plugin input not found")))
    ELSE LET v == Validate(r.Input) IN
         IF v.req.Mock /\ v.req.MockState \in {"success", "error", "running"}
             THEN [returned |-> TRUE, resp |-> MockResponse(v.req.MockState),
                   input |-> Ptr(v.req)]
         ELSE [returned |-> FALSE, resp |-> ZeroResponse, input |-> Ptr(v.req)]

Admit(r) ==
    IF r.Method # "POST"
        THEN Rejected(WithArgs(ErrMalformedRequest, ArgString("method is not POST")))
    ELSE IF r.ContentType # "application/json"
        THEN Rejected(Ptr(<<ErrUnsupportedContentType>>))
    ELSE IF r.Body = "unreadable"
        THEN Rejected(WithArgs(ErrRequestReaderError, ArgError(Ptr(<<"read error">>))))
    ELSE IF r.Body = "unparsable"
        THEN Rejected(WithArgs(ErrRequestParserError, ArgError(Ptr(<<"syntax error">>))))
    ELSE IF ~r.HasWorkflow \/ ~r.HasTemplate
        THEN Rejected(WithArgs(ErrRequestParserError, ArgError(NoError)))
    ELSE IF ~r.HasPluginKey
        THEN Rejected(WithArgs(ErrRequestInputMalformedError,
                               ArgString("plugin input not found")))
    ELSE LET v == Validate(r.Input) IN
         IF v.err # NoError
             THEN Rejected(WithArgs(ErrRequestInputMalformedError, ArgError(v.err)))
         ELSE IF v.req.Mock /\ v.req.MockState \in {"success", "error", "running"}
             THEN [returned |-> TRUE, resp |-> MockResponse(v.req.MockState),
                   input |-> Ptr(v.req)]
         ELSE [returned |-> FALSE, resp |-> ZeroResponse, input |-> Ptr(v.req)]

-----------------------------------------------------------------------------
(* The native status tokens the collaborators may report. Each set holds   *)
(* the documented tokens of the service and tokens it does not document.   *)

SageMakerTokens ==
    {"Executing", "Stopping", "Stopped", "Failed", "Succeeded", "InProgress",
     "SUCCEEDED", "Paused"}

GlueTokens ==
    {"STARTING", "RUNNING", "STOPPING", "STOPPED", "SUCCEEDED", "FAILED", "ERROR",
     "WAITING", "TIMEOUT", "EXPIRED", "Succeeded"}

StepFunctionTokens ==
    {"RUNNING", "SUCCEEDED", "FAILED", "TIMED_OUT", "ABORTED", "PENDING_REDRIVE",
     "Succeeded"}

LambdaTokens == {"RUNNING", "SUCCEEDED", "FAILED", "", "ERROR", "Succeeded"}

PollTokens == SageMakerTokens \cup GlueTokens \cup StepFunctionTokens

Tokens(svc) ==
    CASE svc = SageMaker -> SageMakerTokens
      [] svc = Glue -> GlueTokens
      [] svc = StepFunctions -> StepFunctionTokens
      [] svc = Lambda -> LambdaTokens

-----------------------------------------------------------------------------
(* The dispatch of handleTemplateExecute on the service name. *)

CheckIfExists(svc, outcome) ==
    CASE svc = SageMaker -> CheckIfSageMakerPipelineExists(outcome)
      [] svc = Glue -> CheckIfGlueJobExists(outcome)
      [] svc = StepFunctions -> CheckIfStepFunctionExists(outcome)
      [] svc = Lambda -> CheckIfLambdaFunctionExists(outcome)

StartExecution(svc, outcome, id) ==
    CASE svc = SageMaker -> StartSageMakerPipelineExecution(outcome, id)
      [] svc = Glue -> StartGlueJobExecution(outcome, id)
      [] svc = StepFunctions -> StartStepFunctionExecution(outcome, id)

CheckExecution(svc, outcome, token) ==
    CASE svc = SageMaker -> CheckSageMakerPipelineExecution(outcome, token)
      [] svc = Glue -> CheckGlueJobExecution(outcome, token)
      [] svc = StepFunctions -> CheckStepFunctionExecution(outcome, token)

(* The dispatch without the test of exists: every execute starts. *)
AfterLookupNoCheck(svc, exists) == IF svc = Lambda THEN "store" ELSE "start"

(* Where the handler goes after reading ex.Workflows[wfID]. *)
AfterLookup(svc, exists) ==
    IF exists THEN (IF svc = Lambda THEN "lambda_lock" ELSE "poll")
    ELSE (IF svc = Lambda THEN "store" ELSE "start")

-----------------------------------------------------------------------------
(* The state machine. *)

IdleHandler ==
    [pc |-> "idle", request |-> NilPtr, wfID |-> "", input |-> NilPtr, present0 |-> FALSE,
     held |-> FALSE, ops |-> 0,
     found |-> NilPtr, pending |-> NilPtr, returned |-> EmptyID, resp |-> ZeroResponse,
     reply |-> NoReply, call |-> NilPtr, path |-> "none"]

NoRunner == [pc |-> "none", outcome |-> ""]

Call(op, svc, arg, outcome) == [op |-> op, svc |-> svc, arg |-> arg, outcome |-> outcome]

Init ==
    /\ Workflows = [w \in WorkflowIDs |-> NilPtr]
    /\ heap = << >>
    /\ lockHolder = << >>
    /\ runner = << >>
    /\ handler = [p \in Handlers |-> IdleHandler]
    /\ starts = [w \in WorkflowIDs |-> {}]
    /\ failedStarts = {}
    /\ recorded = [w \in WorkflowIDs |-> {}]
    /\ nextExec = 0
    /\ nreq = 0
    /\ crashed = FALSE
    /\ fin = << >>
    /\ fout = << >>
    /\ native = NotStarted

Svc(p) == handler[p].input[1].ServiceName

(* Two goroutines are executing an access to ex.Workflows at once, one of  *)
(* them the write: nothing orders the two accesses.                        *)
Race ==
    \E p, q \in Handlers :
        /\ p # q
        /\ handler[p].pc = "store"
        /\ handler[q].pc \in {"lookup", "store"}

(* The handler returns resp: the deferred function writes the reply. *)
Return(h, resp) == [h EXCEPT !.pc = "done", !.resp = resp, !.reply = BuildReply(resp)]

(* A goroutine takes request r and runs handleTemplateExecute up to its    *)
(* first access to shared state.                                           *)
Serve(p, r) ==
    /\ ~crashed
    /\ handler[p].pc = "idle"
    /\ LET a == Admit(r) IN
        handler' = [handler EXCEPT ![p] =
            IF a.returned
            THEN [Return(IdleHandler, a.resp) EXCEPT
                     !.request = Ptr(r),
                     !.input = a.input,
                     !.wfID = IF a.input = NilPtr THEN "" ELSE r.Uid,
                     !.path = IF a.input = NilPtr THEN "rejected" ELSE "mock"]
            ELSE [IdleHandler EXCEPT
                     !.request = Ptr(r),
                     !.input = a.input,
                     !.wfID = r.Uid,
                     !.present0 = (a.input[1].Action = "execute" /\ Workflows[r.Uid] # NilPtr),
                     !.path = a.input[1].Action,
                     !.pc = IF a.input[1].Action = "validate" THEN "exists" ELSE "lookup"]]
    /\ UNCHANGED <<Workflows, heap, lockHolder, runner, starts, failedStarts, recorded, nextExec,
                   crashed, fin, fout, native>>

(* A request arrives. *)
Receive(p, r) ==
    /\ nreq < MaxRequests
    /\ nreq' = nreq + 1
    /\ Serve(p, r)

(* validate: the existence check of the service. *)
ExistsCall(p, outcome) ==
    /\ ~crashed
    /\ handler[p].pc = "exists"
    /\ handler' = [handler EXCEPT ![p] =
          [Return(@, CheckIfExists(Svc(p), outcome)) EXCEPT
              !.ops = @ + 1,
              !.call = Ptr(Call("exists", Svc(p), handler[p].input[1].ResourceArn, outcome))]]
    /\ UNCHANGED <<Workflows, heap, lockHolder, runner, starts, failedStarts, recorded, nextExec, nreq,
                   crashed, fin, fout, native>>

(* execute: pluginWorkflow, exists := ex.Workflows[wfID] *)
Lookup(p) ==
    /\ ~crashed
    /\ handler[p].pc = "lookup"
    /\ LET ptr == Workflows[handler[p].wfID]
           next == AfterLookup(Svc(p), ptr # NilPtr) IN
        handler' = [handler EXCEPT ![p] =
            [@ EXCEPT !.found = ptr,
                      !.held = (next = "lambda_lock" /\ lockHolder[ptr[1]] # ""),
                      !.pc = next,
                      !.path = IF ptr # NilPtr THEN "poll" ELSE "start",
                      !.pending = IF next = "store" THEN StartLambdaFunctionExecution.store
                                  ELSE NilPtr,
                      !.resp = IF next = "store" THEN StartLambdaFunctionExecution.resp
                               ELSE ZeroResponse]]
    /\ UNCHANGED <<Workflows, heap, lockHolder, runner, starts, failedStarts, recorded, nextExec, nreq,
                   crashed, fin, fout, native>>

(* The start call tried a second time within the request when it fails. *)
StartCallRetry(p, outcome, fresh) ==
    /\ ~crashed
    /\ handler[p].pc = "start"
    /\ LET id == IF outcome = "ok" /\ fresh THEN <<Svc(p), nextExec + 1>> ELSE EmptyID
           r == StartExecution(Svc(p), outcome, id)
           c == Ptr(Call("start", Svc(p), handler[p].input[1].ResourceArn, outcome)) IN
        /\ handler' = [handler EXCEPT ![p] =
              IF r.store = NilPtr
              THEN IF handler[p].ops = 0
                   THEN [@ EXCEPT !.call = c, !.ops = @ + 1]
                   ELSE [Return(@, r.resp) EXCEPT !.call = c, !.ops = @ + 1]
              ELSE [@ EXCEPT !.pc = "store", !.pending = r.store, !.resp = r.resp,
                             !.call = c, !.returned = id, !.ops = @ + 1]]
        /\ failedStarts' = IF id = EmptyID THEN failedStarts \cup {handler[p].wfID}
                            ELSE failedStarts
        /\ nextExec' = IF id = EmptyID THEN nextExec ELSE nextExec + 1
        /\ starts' = IF id = EmptyID THEN starts
                      ELSE [starts EXCEPT ![handler[p].wfID] = @ \cup {id}]
    /\ UNCHANGED <<Workflows, heap, lockHolder, runner, recorded, nreq, crashed, fin, fout, native>>

(* The start call of a poll-based service, up to the write of ex.Workflows. *)
StartCall(p, outcome, fresh) ==
    /\ ~crashed
    /\ handler[p].pc = "start"
    /\ LET id == IF outcome = "ok" /\ fresh THEN <<Svc(p), nextExec + 1>> ELSE EmptyID
           r == StartExecution(Svc(p), outcome, id)
           c == Ptr(Call("start", Svc(p), handler[p].input[1].ResourceArn, outcome)) IN
        /\ handler' = [handler EXCEPT ![p] =
              IF r.store = NilPtr
              THEN [Return(@, r.resp) EXCEPT !.call = c, !.ops = @ + 1]
              ELSE [@ EXCEPT !.pc = "store", !.pending = r.store, !.resp = r.resp,
                             !.call = c, !.returned = id, !.ops = @ + 1]]
        /\ failedStarts' = IF id = EmptyID THEN failedStarts \cup {handler[p].wfID}
                            ELSE failedStarts
        /\ nextExec' = IF id = EmptyID THEN nextExec ELSE nextExec + 1
        /\ starts' = IF id = EmptyID THEN starts
                      ELSE [starts EXCEPT ![handler[p].wfID] = @ \cup {id}]
    /\ UNCHANGED <<Workflows, heap, lockHolder, runner, recorded, nreq, crashed, fin, fout, native>>

(* ex.Workflows[workflowID] = wf, and the return that follows it. *)
Store(p) ==
    /\ ~crashed
    /\ handler[p].pc = "store"
    /\ LET a == Len(heap) + 1
           w == handler[p].wfID IN
        /\ heap' = Append(heap, handler[p].pending[1])
        /\ lockHolder' = Append(lockHolder, "")
        /\ runner' = Append(runner, IF Svc(p) = Lambda
                                       THEN [NoRunner EXCEPT !.pc = "spawned"]
                                       ELSE NoRunner)
        /\ Workflows' = [Workflows EXCEPT ![w] = Ptr(a)]
        /\ recorded' = [recorded EXCEPT ![w] = @ \cup {a}]
        /\ starts' = IF Svc(p) = Lambda
                      THEN [starts EXCEPT ![w] = @ \cup {<<Lambda, a>>}]
                      ELSE starts
        /\ handler' = [handler EXCEPT ![p] =
              [Return(@, handler[p].resp) EXCEPT
                  !.ops = IF Svc(p) = Lambda THEN @ + 1 ELSE @]]
    /\ UNCHANGED <<failedStarts, nextExec, nreq, crashed, fin, fout, native>>

(* A poll that drops the registry entry once the execution has ended. *)
PollCallAndForget(p, outcome, token) ==
    /\ ~crashed
    /\ handler[p].pc = "poll"
    /\ token \in Tokens(Svc(p))
    /\ handler' = [handler EXCEPT ![p] =
          [Return(@, CheckExecution(Svc(p), outcome, token)) EXCEPT
              !.ops = @ + 1,
              !.call = Ptr(Call("poll", Svc(p), heap[handler[p].found[1]].ID, outcome))]]
    /\ Workflows' = IF CheckExecution(Svc(p), outcome, token).Status = 3 THEN Workflows
                     ELSE [Workflows EXCEPT ![handler[p].wfID] = NilPtr]
    /\ UNCHANGED <<heap, lockHolder, runner, starts, failedStarts, recorded, nextExec, nreq,
                   crashed, fin, fout, native>>

(* The poll call of a poll-based service with pluginWorkflow.ID. *)
PollCall(p, outcome, token) ==
    /\ ~crashed
    /\ handler[p].pc = "poll"
    /\ token \in Tokens(Svc(p))
    /\ handler' = [handler EXCEPT ![p] =
          [Return(@, CheckExecution(Svc(p), outcome, token)) EXCEPT
              !.ops = @ + 1,
              !.call = Ptr(Call("poll", Svc(p), heap[handler[p].found[1]].ID, outcome))]]
    /\ UNCHANGED <<Workflows, heap, lockHolder, runner, starts, failedStarts, recorded, nextExec, nreq,
                   crashed, fin, fout, native>>

(* CheckLambdaFunctionExecution reading the record without waiting for its lock. *)
LambdaLockNoWait(p) ==
    /\ ~crashed
    /\ handler[p].pc = "lambda_lock"
    /\ handler' = [handler EXCEPT ![p].pc = "lambda_read"]
    /\ UNCHANGED <<Workflows, heap, lockHolder, runner, starts, failedStarts, recorded, nextExec,
                   nreq, crashed, fin, fout, native>>

(* CheckLambdaFunctionExecution: wf.Lock(), the switch, the deferred wf.Unlock(). *)
LambdaLock(p) ==
    /\ ~crashed
    /\ handler[p].pc = "lambda_lock"
    /\ lockHolder[handler[p].found[1]] = ""
    /\ lockHolder' = [lockHolder EXCEPT ![handler[p].found[1]] = p]
    /\ handler' = [handler EXCEPT ![p].pc = "lambda_read"]
    /\ UNCHANGED <<Workflows, heap, runner, starts, failedStarts, recorded, nextExec, nreq, crashed,
                   fin, fout, native>>

LambdaRead(p) ==
    /\ ~crashed
    /\ handler[p].pc = "lambda_read"
    /\ handler' = [handler EXCEPT ![p] =
          Return(@, CheckLambdaFunctionExecution(heap[handler[p].found[1]]))]
    /\ lockHolder' = [lockHolder EXCEPT ![handler[p].found[1]] = ""]
    /\ UNCHANGED <<Workflows, heap, runner, starts, failedStarts, recorded, nextExec, nreq, crashed,
                   fin, fout, native>>

(* The reply has been written; the goroutine serves the next request. *)
Finish(p) ==
    /\ ~crashed
    /\ handler[p].pc = "done"
    /\ handler' = [handler EXCEPT ![p] = IdleHandler]
    /\ UNCHANGED <<Workflows, heap, lockHolder, runner, starts, failedStarts, recorded, nextExec, nreq,
                   crashed, fin, fout, native>>

(* InvokeLambdaFunctionAsync, the goroutine of the record at address a:    *)
(* it runs up to the outcome, takes the lock and writes wf.Status ...      *)
RunnerSetStatus(a, outcome) ==
    /\ ~crashed
    /\ runner[a].pc = "spawned"
    /\ lockHolder[a] = ""
    /\ lockHolder' = [lockHolder EXCEPT ![a] = "runner"]
    /\ heap' = [heap EXCEPT ![a].Status = InvokeLambdaFunctionAsync(outcome).Status]
    /\ runner' = [runner EXCEPT ![a] = [pc |-> "message", outcome |-> outcome]]
    /\ UNCHANGED <<Workflows, handler, starts, failedStarts, recorded, nextExec, nreq, crashed, fin, fout, native>>

(* The goroutine starting over after its write, as a retry loop would. *)
RunnerSetMessageRetry(a) ==
    /\ ~crashed
    /\ runner[a].pc = "message"
    /\ heap' = [heap EXCEPT ![a].Message = InvokeLambdaFunctionAsync(runner[a].outcome).Message]
    /\ lockHolder' = [lockHolder EXCEPT ![a] = ""]
    /\ runner' = [runner EXCEPT ![a].pc = IF runner[a].outcome = "ok" THEN "finished" ELSE "spawned"]
    /\ UNCHANGED <<Workflows, handler, starts, failedStarts, recorded, nextExec, nreq, crashed, fin, fout, native>>

(* ... then writes wf.Message, releases the lock and ends. *)
RunnerSetMessage(a) ==
    /\ ~crashed
    /\ runner[a].pc = "message"
    /\ heap' = [heap EXCEPT ![a].Message = InvokeLambdaFunctionAsync(runner[a].outcome).Message]
    /\ lockHolder' = [lockHolder EXCEPT ![a] = ""]
    /\ runner' = [runner EXCEPT ![a].pc = "finished"]
    /\ UNCHANGED <<Workflows, handler, starts, failedStarts, recorded, nextExec, nreq, crashed, fin, fout, native>>

(* A panic in the goroutine with a value the deferred function does not   *)
(* recover: the second panic is not recovered and the process exits.       *)
RunnerPanic(a, value) ==
    /\ ~crashed
    /\ runner[a].pc = "spawned"
    /\ ~Recovers(value)
    /\ runner' = [runner EXCEPT ![a] = [pc |-> "panicked", outcome |-> "panic_other"]]
    /\ crashed' = TRUE
    /\ UNCHANGED <<Workflows, heap, lockHolder, handler, starts, failedStarts, recorded,
                   nextExec, nreq, fin, fout, native>>

(* The Go runtime detects the unsynchronised map access and throws. *)
Crash ==
    /\ ~crashed
    /\ Race
    /\ crashed' = TRUE
    /\ UNCHANGED <<Workflows, heap, lockHolder, runner, handler, starts, failedStarts, recorded,
                   nextExec, nreq, fin, fout, native>>

Next ==
    \/ \E p \in Handlers, r \in InboundRequests : Receive(p, r)
    \/ \E p \in Handlers, o \in CallOutcomes : ExistsCall(p, o)
    \/ \E p \in Handlers : Lookup(p)
    \/ \E p \in Handlers, o \in CallOutcomes, fresh \in BOOLEAN : StartCall(p, o, fresh)
    \/ \E p \in Handlers : Store(p)
    \/ \E p \in Handlers, o \in CallOutcomes, t \in PollTokens : PollCall(p, o, t)
    \/ \E p \in Handlers : LambdaLock(p)
    \/ \E p \in Handlers : LambdaRead(p)
    \/ \E p \in Handlers : Finish(p)
    \/ \E a \in DOMAIN runner, o \in InvokeOutcomes : RunnerSetStatus(a, o)
    \/ \E a \in DOMAIN runner : RunnerSetMessage(a)
    \/ \E a \in DOMAIN runner, v \in PanicValues : RunnerPanic(a, v)
    \/ Crash

Spec == Init /\ [][Next]_vars

-----------------------------------------------------------------------------
(* Properties of the handler and the registry. *)

Phase(p) == handler[p].reply.node[1].phase

Done(p) == handler[p].pc = "done"

(* The ids of the records stored so far under workflow id w. *)
RecordedIDs(w) == {heap[a].ID : a \in recorded[w]}

ExactlyOneStart ==
    \A w \in WorkflowIDs :
        /\ Cardinality(starts[w]) <= 1
        /\ Cardinality(recorded[w]) <= 1

(* C3: no two handlers execute an access to ex.Workflows at the same time  *)
(* with one of them writing.                                               *)
NoConcurrentRegistryAccess == ~Race

(* The steps of handler p, told by its position before and after. *)
StartReturned(p) ==
    /\ handler[p].pc = "start"
    /\ handler'[p].pc # "start"

StartSucceeded(p) ==
    /\ StartReturned(p)
    /\ handler'[p].call[1].outcome = "ok"
    /\ nextExec' # nextExec

StartFailed(p) ==
    /\ StartReturned(p)
    /\ nextExec' = nextExec

Stored(p) ==
    /\ handler[p].pc = "store"
    /\ handler'[p].pc = "done"

Polled(p) ==
    /\ handler[p].pc \in {"poll", "lambda_lock", "lambda_read"}
    /\ handler'[p].pc # handler[p].pc

(* C4: for a poll-based service, when the start call of an execute request *)
(* returns an execution id, the handler goes on to store a record, the     *)
(* record stored under the workflow id holds exactly that id, no other     *)
(* entry changes, and the reply is phase Running with a 60 s requeue.      *)
StartRecordsReturnedID ==
    [][\A p \in Handlers :
          /\ StartSucceeded(p) =>
                /\ handler'[p].pc = "store"
                /\ handler'[p].returned = <<Svc(p), nextExec'>>
                /\ handler[p].found = NilPtr
          /\ (Stored(p) /\ Svc(p) \in PollServices) =>
                /\ Workflows'[handler[p].wfID] # NilPtr
                /\ heap'[Workflows'[handler[p].wfID][1]].ID = handler[p].returned
                /\ handler[p].returned # EmptyID
                /\ \A w \in WorkflowIDs \ {handler[p].wfID} : Workflows'[w] = Workflows[w]
                /\ \A a \in DOMAIN heap : heap'[a] = heap[a]
                /\ handler'[p].reply.code = 200
                /\ Phase(p)' = "Running"
                /\ handler'[p].reply.requeue = Ptr(Seconds(60))
      ]_vars

StartRecordsReturnedIDWitness ==
    \E p \in Handlers :
        /\ Done(p)
        /\ handler[p].path = "start"
        /\ Svc(p) \in PollServices
        /\ handler[p].returned # EmptyID
        /\ Workflows[handler[p].wfID] # NilPtr
        /\ heap[Workflows[handler[p].wfID][1]].ID = handler[p].returned
        /\ Phase(p) = "Running"

(* C5: for a poll-based service, when the start call fails (session, call  *)
(* or packing error, or an empty execution id) the handler replies phase   *)
(* Error without requeue and changes neither the registry nor any record;  *)
(* and an execute request that finds no record for its workflow id goes to *)
(* the start call.                                                         *)
FailedStartRecordsNothing ==
    [][\A p \in Handlers :
          /\ StartFailed(p) =>
                /\ Workflows' = Workflows
                /\ heap' = heap
                /\ recorded' = recorded
                /\ Done(p)'
                /\ handler'[p].reply.code = 200
                /\ Phase(p)' = "Error"
                /\ handler'[p].reply.requeue = NilPtr
          /\ (handler[p].pc = "lookup" /\ handler'[p].pc # "lookup"
                 /\ Workflows[handler[p].wfID] = NilPtr /\ Svc(p) \in PollServices) =>
                handler'[p].pc = "start"
      ]_vars

(* After a failed start a further request with the same id is at its start call. *)
FailedStartRecordsNothingWitness ==
    \E p, q \in Handlers :
        /\ Done(p)
        /\ handler[p].call # NilPtr
        /\ handler[p].call[1].op = "start"
        /\ Phase(p) = "Error"
        /\ handler[p].wfID \in failedStarts
        /\ Workflows[handler[p].wfID] = NilPtr
        /\ q # p
        /\ handler[q].pc = "start"
        /\ handler[q].wfID = handler[p].wfID

(* C6: a poll (the poll call of a poll-based service or the read of the    *)
(* Lambda record) uses the record found under the workflow id, one that    *)
(* was recorded under it, and changes neither the registry nor any record; *)
(* and no step removes an entry of the registry.                           *)
PollKeepsRegistry ==
    [][/\ \A w \in WorkflowIDs : Workflows[w] # NilPtr => Workflows'[w] # NilPtr
       /\ \A a \in DOMAIN heap : a \in DOMAIN heap'
       /\ \A p \in Handlers :
             Polled(p) =>
                /\ Workflows' = Workflows
                /\ heap' = heap
                /\ recorded' = recorded
                /\ handler[p].found[1] \in recorded[handler[p].wfID]
                /\ handler[p].pc = "poll" =>
                      /\ handler'[p].call[1].op = "poll"
                      /\ handler'[p].call[1].arg = heap[handler[p].found[1]].ID
      ]_vars

PollKeepsRegistryWitness ==
    \E p \in Handlers :
        /\ Done(p)
        /\ handler[p].path = "poll"
        /\ handler[p].call # NilPtr
        /\ handler[p].call[1].outcome = "ok"
        /\ Phase(p) = "Succeeded"
        /\ Workflows[handler[p].wfID] = handler[p].found

(* The derived resource identifier of the requests the workflow templates send. *)
TemplateArn(svc) ==
    CASE svc = SageMaker -> <<"arn:aws:sagemaker:", Region, ":", Account, ":pipeline/", "MyPipeline">>
      [] svc = Glue -> <<"arn:aws:glue:", Region, ":", Account, ":job/", "MyJob">>
      [] svc = StepFunctions ->
            <<"arn:aws:states:", Region, ":", Account, ":stateMachine:", "MyStepFunction">>
      [] svc = Lambda -> <<"arn:aws:lambda:", Region, ":", Account, ":function:", "MyFunction">>

(* C7: a validate request (mock off) never reads the registry, never       *)
(* starts or polls; when it has replied it has called the existence check  *)
(* of its service with the derived resource identifier, and the reply is   *)
(* phase Succeeded if the check succeeded and phase Error if it failed.    *)
ValidateChecksExistence ==
    \A p \in Handlers :
        handler[p].path = "validate" =>
            /\ handler[p].pc \in {"exists", "done"}
            /\ Done(p) =>
                  /\ handler[p].call # NilPtr
                  /\ handler[p].call[1].op = "exists"
                  /\ handler[p].call[1].svc = Svc(p)
                  /\ handler[p].call[1].arg = TemplateArn(Svc(p))
                  /\ handler[p].reply.code = 200
                  /\ handler[p].call[1].outcome = "ok" => Phase(p) = "Succeeded"
                  /\ handler[p].call[1].outcome # "ok" => Phase(p) = "Error"
                  /\ handler[p].reply.requeue = NilPtr

ValidateChecksExistenceWitness ==
    \E p, q \in Handlers :
        /\ p # q
        /\ handler[p].path = "validate" /\ Done(p) /\ Phase(p) = "Succeeded"
        /\ handler[q].path = "validate" /\ Done(q) /\ Phase(q) = "Error"

-----------------------------------------------------------------------------
(* The Status Normalizer and the reply builder as functions of their       *)
(* input: fin is the input, fout the sequence of results computed so far.  *)

AllTokens == PollTokens \cup LambdaTokens

StatusInputs == [svc : allowedServiceNames, token : AllTokens]

(* The status switch of each service on a successful describe call. *)
NormalizeStatus(svc, token) ==
    IF svc = Lambda
    THEN CheckLambdaFunctionExecution(PluginWorkflow(EmptyID, token, Descriptor("InvokeOutput")))
    ELSE CheckExecution(svc, "ok", token)

InitStatus ==
    /\ Workflows = [w \in WorkflowIDs |-> NilPtr]
    /\ heap = << >>
    /\ lockHolder = << >>
    /\ runner = << >>
    /\ handler = [p \in Handlers |-> IdleHandler]
    /\ starts = [w \in WorkflowIDs |-> {}]
    /\ failedStarts = {}
    /\ recorded = [w \in WorkflowIDs |-> {}]
    /\ nextExec = 0
    /\ nreq = 0
    /\ crashed = FALSE
    /\ fin \in StatusInputs
    /\ fout = << >>
    /\ native = NotStarted

Normalize ==
    /\ Len(fout) = 0
    /\ fout' = <<NormalizeStatus(fin.svc, fin.token)>>
    /\ UNCHANGED <<Workflows, heap, lockHolder, runner, handler, starts, failedStarts,
                   recorded, nextExec, nreq, crashed, fin, native>>

Respond ==
    /\ Len(fout) = 1
    /\ fout' = Append(fout, BuildReply(fout[1]))
    /\ UNCHANGED <<Workflows, heap, lockHolder, runner, handler, starts, failedStarts,
                   recorded, nextExec, nreq, crashed, fin, native>>

NextStatus == Normalize \/ Respond

SpecStatus == InitStatus /\ [][NextStatus]_vars

Responses ==
    {PluginResponse(m, st, rq, d, re, ee) :
        m \in {EmptyText, Descriptor("Output")},
        st \in 0 .. MaxStatus,
        rq \in BOOLEAN,
        d \in {NilPtr, Ptr(Seconds(5)), Ptr(Seconds(60))},
        re \in {NoError, WithArgs(ErrRequestParserError, ArgError(Ptr(<<"unexpected EOF">>)))},
        ee \in {NoError, Errorf("failed to create aws session: ", AwsError)}}

InitReply ==
    /\ Workflows = [w \in WorkflowIDs |-> NilPtr]
    /\ heap = << >>
    /\ lockHolder = << >>
    /\ runner = << >>
    /\ handler = [p \in Handlers |-> IdleHandler]
    /\ starts = [w \in WorkflowIDs |-> {}]
    /\ failedStarts = {}
    /\ recorded = [w \in WorkflowIDs |-> {}]
    /\ nextExec = 0
    /\ nreq = 0
    /\ crashed = FALSE
    /\ fin \in Responses
    /\ fout = << >>
    /\ native = NotStarted

Build ==
    /\ Len(fout) = 0
    /\ fout' = <<BuildReply(fin)>>
    /\ UNCHANGED <<Workflows, heap, lockHolder, runner, handler, starts, failedStarts,
                   recorded, nextExec, nreq, crashed, fin, native>>

NextReply == Build

SpecReply == InitReply /\ [][NextReply]_vars

(* The terminal-failure tokens of each service. *)
FailureTokens(svc) ==
    CASE svc = Glue -> {"STOPPED", "FAILED", "ERROR", "TIMEOUT"}
      [] svc = StepFunctions -> {"TIMED_OUT", "FAILED", "ABORTED"}
      [] svc = Lambda -> {"FAILED"}
      [] svc = SageMaker -> {"Stopped", "Failed"}

SuccessToken(svc) == IF svc = SageMaker THEN "Succeeded" ELSE "SUCCEEDED"

(* The canonical outcome a token is to have: 1 Success, 2 Error, 3 Running. *)
Canonical(svc, token) ==
    IF token = SuccessToken(svc) THEN 1
    ELSE IF token \in FailureTokens(svc) THEN 2
    ELSE 3

PhaseOf(status) ==
    CASE status = 1 -> "Succeeded"
      [] status = 2 -> "Error"
      [] status = 3 -> "Running"

(* C8: for Glue, Step Functions and the Lambda record every status token   *)
(* has one canonical outcome: SUCCEEDED is Success, the terminal-failure   *)
(* tokens of the service are Error, every other token (documented or not)  *)
(* is Running, with a requeue, and the reply carries the matching phase.   *)
NormalizerComplete ==
    (fin.svc \in {Glue, StepFunctions, Lambda}) =>
        /\ Len(fout) >= 1 =>
              /\ fout[1].Status = Canonical(fin.svc, fin.token)
              /\ fout[1].ShouldRequeue = (Canonical(fin.svc, fin.token) = 3)
              /\ fout[1].RequestError = NoError
        /\ Len(fout) = 2 =>
              /\ fout[2].code = 200
              /\ fout[2].node[1].phase = PhaseOf(Canonical(fin.svc, fin.token))

NormalizerCompleteWitness ==
    /\ fin.svc = Glue
    /\ fin.token = "EXPIRED"
    /\ Len(fout) = 2
    /\ fout[2].node[1].phase = "Running"

(* C9: for SageMaker Pipelines Succeeded is Success, Stopped and Failed    *)
(* are Error and every other status is Running; the reply to a poll is     *)
(* phase Succeeded exactly when the status is Succeeded and phase Running  *)
(* for every status other than Succeeded, Stopped and Failed.              *)
SageMakerNormalizer ==
    (fin.svc = SageMaker) =>
        /\ Len(fout) >= 1 => fout[1].Status = Canonical(SageMaker, fin.token)
        /\ Len(fout) = 2 =>
              /\ (fout[2].node[1].phase = "Succeeded") <=> (fin.token = "Succeeded")
              /\ (fout[2].node[1].phase = "Error") <=> (fin.token \in {"Stopped", "Failed"})
              /\ fin.token \notin {"Succeeded", "Stopped", "Failed"} =>
                    /\ fout[2].node[1].phase = "Running"
                    /\ fout[2].requeue = Ptr(Seconds(60))

SageMakerNormalizerWitness ==
    /\ fin.svc = SageMaker
    /\ fin.token = "Succeeded"
    /\ Len(fout) = 2
    /\ fout[2].node[1].phase = "Succeeded"

(* C10: for a response without a request error the reply is HTTP 200 with  *)
(* phase Succeeded for status 1 (message "success" if none), phase Error   *)
(* for status 2 (the message, else the execution error's text, else        *)
(* "error"), phase Running for status 3 (message "running" if none,        *)
(* requeue 60 s if none), and phase Error for every other status.          *)
BuilderMapping ==
    (Len(fout) = 1 /\ fin.RequestError = NoError) =>
        /\ fout[1].code = 200
        /\ fout[1].node # NilPtr
        /\ fin.Message # EmptyText => fout[1].node[1].message = fin.Message
        /\ fin.Status = 1 =>
              /\ fout[1].node[1].phase = "Succeeded"
              /\ fin.Message = EmptyText => fout[1].node[1].message = <<"success">>
        /\ fin.Status = 2 =>
              /\ fout[1].node[1].phase = "Error"
              /\ (fin.Message = EmptyText /\ fin.ExecutionError # NoError) =>
                    fout[1].node[1].message = fin.ExecutionError[1]
              /\ (fin.Message = EmptyText /\ fin.ExecutionError = NoError) =>
                    fout[1].node[1].message = <<"error">>
        /\ fin.Status = 3 =>
              /\ fout[1].node[1].phase = "Running"
              /\ fin.Message = EmptyText => fout[1].node[1].message = <<"running">>
              /\ fin.RequeueDuration = NilPtr => fout[1].requeue = <<60>>
              /\ fin.RequeueDuration # NilPtr => fout[1].requeue = fin.RequeueDuration
        /\ fin.Status \notin {1, 2, 3} =>
              /\ fout[1].node[1].phase = "Error"
              /\ fout[1].node[1].message # EmptyText

BuilderMappingWitness ==
    /\ Len(fout) = 1
    /\ fin.Status = 0
    /\ fin.RequestError = NoError
    /\ fin.Message = EmptyText
    /\ fin.ExecutionError = NoError
    /\ fout[1].node[1].phase = "Error"
    /\ fout[1].node[1].message = <<"unknown error">>

-----------------------------------------------------------------------------
(* Properties of the mock switch, of validation and of the rejections. *)

(* The handler holds a response made by the mock switch or by a service    *)
(* operation: it has returned one, or is between a start and its write.    *)
Produced(p) ==
    /\ handler[p].path \in {"mock", "validate", "start", "poll"}
    /\ handler[p].pc \in {"done", "store"}

(* C11: in every response made by the mock switch or by a service          *)
(* operation (existence check, start, poll, lambda start, lambda poll)     *)
(* ShouldRequeue is true exactly when Status is Running (3).               *)
RequeueIffRunning ==
    \A p \in Handlers :
        Produced(p) => (handler[p].resp.ShouldRequeue <=> (handler[p].resp.Status = 3))

(* A lambda poll has answered Running with the flag set. *)
RequeueIffRunningWitness ==
    \E p \in Handlers :
        /\ Done(p)
        /\ handler[p].path = "poll"
        /\ Svc(p) = Lambda
        /\ handler[p].resp.Status = 3
        /\ handler[p].resp.ShouldRequeue

(* The plugin input of the request handler p is serving, as it was sent. *)
Sent(p) == handler[p].request[1].Input

(* The request of handler p reached validation and passed it with mock on. *)
ValidMock(p) ==
    /\ handler[p].request # NilPtr
    /\ handler[p].input # NilPtr
    /\ Sent(p).Mock
    /\ Validate(Sent(p)).err = NoError

(* C12: a valid mock request with mock_state success is answered HTTP 200, *)
(* phase Succeeded, message "success", no requeue; with mock_state running *)
(* HTTP 200, phase Running, message "running", requeue 60 s; for every     *)
(* service and action and whatever the registry holds, so that repeating   *)
(* the request gives the same reply.                                       *)
MockIdempotent ==
    \A p \in Handlers :
        ValidMock(p) =>
            /\ Done(p)
            /\ Sent(p).MockState = "success" =>
                  handler[p].reply =
                      Reply(200, Ptr(NodeResult("Succeeded", <<"success">>)), NilPtr)
            /\ Sent(p).MockState = "running" =>
                  handler[p].reply =
                      Reply(200, Ptr(NodeResult("Running", <<"running">>)), <<60>>)

(* A lambda mock request answered Running while its workflow id has a record. *)
MockIdempotentWitness ==
    \E p \in Handlers :
        /\ ValidMock(p)
        /\ Sent(p).ServiceName = Lambda
        /\ Sent(p).MockState = "running"
        /\ Workflows[handler[p].wfID] # NilPtr
        /\ handler[p].reply.requeue = <<60>>

(* C13: a request with mock on and mock_state error, valid otherwise, is   *)
(* answered with a node result of phase Error and a non-empty message.     *)
MockErrorYieldsError ==
    \A p \in Handlers :
        (/\ Done(p)
         /\ handler[p].request # NilPtr
         /\ handler[p].request[1] = WellFormed("wf-a", TemplateRequest(Glue, "execute", TRUE, "error")))
        => /\ handler[p].reply.node # NilPtr
           /\ Phase(p) = "Error"
           /\ handler[p].reply.node[1].message # EmptyText

(* C14: a request that passes validation with mock on is answered by the   *)
(* step that receives it: it makes no collaborator call, reads no registry *)
(* entry, and the step changes neither the registry, nor a record, nor the *)
(* set of async runners; whatever its service, action and workflow id.     *)
MockShortCircuit ==
    [][\A p \in Handlers :
          /\ ValidMock(p) =>
                /\ handler[p].path = "mock"
                /\ Done(p)
                /\ handler[p].call = NilPtr
                /\ handler[p].found = NilPtr
                /\ handler[p].pending = NilPtr
                /\ handler'[p].pc \in {"done", "idle"}
          /\ (handler[p].pc = "idle" /\ ValidMock(p)') =>
                /\ Workflows' = Workflows
                /\ heap' = heap
                /\ runner' = runner
                /\ lockHolder' = lockHolder
                /\ recorded' = recorded
                /\ starts' = starts
      ]_vars

(* A mock execute request answered for a workflow id without a record: no  *)
(* record has appeared.                                                    *)
MockShortCircuitWitness ==
    \E p \in Handlers :
        /\ ValidMock(p)
        /\ Done(p)
        /\ Sent(p).Action = "execute"
        /\ Sent(p).ServiceName = Lambda
        /\ Workflows[handler[p].wfID] = NilPtr
        /\ runner = << >>

-----------------------------------------------------------------------------
(* PluginRequest.Validate as a function of the plugin input: fin is the    *)
(* input as decoded from JSON, fout the result of Validate.                *)

OtherAccount == "100000000003"

OtherRegion == "eu-west-1"

(* A resource_arn the caller puts into the plugin input. *)
SuppliedArn == <<"arn:aws:glue:us-west-2:999999999999:job/Other">>

ValidateInputs ==
    [AccountID : {"", Account, OtherAccount},
     ServiceName : {"", "aws_s3"} \cup allowedServiceNames,
     Action : {"", "delete"} \cup allowedActions,
     PipelineName : {"", "MyPipeline"},
     JobName : {"", "MyJob"},
     StepFunctionName : {"", "MyStepFunction"},
     LambdaFunctionName : {"", "MyFunction"},
     RegionName : {"", Region, OtherRegion},
     Mock : BOOLEAN,
     MockState : {"", "success", "running", "error"},
     ResourceArn : {<< >>, SuppliedArn}]

InitValidate ==
    /\ Workflows = [w \in WorkflowIDs |-> NilPtr]
    /\ heap = << >>
    /\ lockHolder = << >>
    /\ runner = << >>
    /\ handler = [p \in Handlers |-> IdleHandler]
    /\ starts = [w \in WorkflowIDs |-> {}]
    /\ failedStarts = {}
    /\ recorded = [w \in WorkflowIDs |-> {}]
    /\ nextExec = 0
    /\ nreq = 0
    /\ crashed = FALSE
    /\ fin \in ValidateInputs
    /\ fout = << >>
    /\ native = NotStarted

ApplyValidate ==
    /\ Len(fout) = 0
    /\ fout' = <<Validate(fin)>>
    /\ UNCHANGED <<Workflows, heap, lockHolder, runner, handler, starts, failedStarts,
                   recorded, nextExec, nreq, crashed, fin, native>>

(* Validate called again on the request the first call left. *)
Revalidate ==
    /\ Len(fout) = 1
    /\ fout' = Append(fout, Validate(fout[1].req))
    /\ UNCHANGED <<Workflows, heap, lockHolder, runner, handler, starts, failedStarts,
                   recorded, nextExec, nreq, crashed, fin, native>>

NextValidate == ApplyValidate \/ Revalidate

SpecValidate == InitValidate /\ [][NextValidate]_vars

(* The name field the service of the request requires, and its JSON name. *)
RequiredName(req) ==
    CASE req.ServiceName = SageMaker -> req.PipelineName
      [] req.ServiceName = Glue -> req.JobName
      [] req.ServiceName = StepFunctions -> req.StepFunctionName
      [] req.ServiceName = Lambda -> req.LambdaFunctionName

RequiredNameMissing(svc) ==
    CASE svc = SageMaker -> <<"pipeline_name is empty">>
      [] svc = Glue -> <<"job_name is empty">>
      [] svc = StepFunctions -> <<"step_function_name is empty">>
      [] svc = Lambda -> <<"lambda_function_name is empty">>

CommonDefect(req) ==
    \/ req.AccountID = ""
    \/ req.ServiceName = ""
    \/ req.Action = ""
    \/ req.RegionName = ""
    \/ req.ServiceName \notin {SageMaker, Glue, StepFunctions, Lambda}
    \/ req.Action \notin {"validate", "execute"}

(* C15: validation fails if account id, service, action or region is       *)
(* empty, if the service or the action is unsupported, or if the name      *)
(* field the service requires is empty, and then the error names that      *)
(* field; a request with none of these defects and mock off passes.        *)
ValidationRejectsDefects ==
    Len(fout) = 1 =>
        /\ CommonDefect(fin) => fout[1].err # NoError
        /\ (~CommonDefect(fin) /\ RequiredName(fin) = "") =>
              fout[1].err = Ptr(RequiredNameMissing(fin.ServiceName))
        /\ (~CommonDefect(fin) /\ RequiredName(fin) # "" /\ ~fin.Mock) =>
              fout[1].err = NoError

(* A step function request whose only defect is the missing name is rejected. *)
ValidationRejectsDefectsWitness ==
    /\ Len(fout) = 1
    /\ fin.ServiceName = StepFunctions
    /\ ~CommonDefect(fin)
    /\ fin.StepFunctionName = ""
    /\ fin.PipelineName # ""
    /\ fout[1].err = Ptr(<<"step_function_name is empty">>)

-----------------------------------------------------------------------------
(* Properties of the rejections of the handler. *)

(* The request handler p is serving got as far as the plugin input. *)
HasPluginInput(p) ==
    /\ handler[p].request # NilPtr
    /\ handler[p].request[1].Method = "POST"
    /\ handler[p].request[1].ContentType = "application/json"
    /\ handler[p].request[1].Body = "parsed"
    /\ handler[p].request[1].HasWorkflow
    /\ handler[p].request[1].HasTemplate
    /\ handler[p].request[1].HasPluginKey

(* C16: a well-formed request whose plugin input fails validation is       *)
(* answered with a node result of phase Error and no requeue.              *)
InvalidInputYieldsErrorNode ==
    \A p \in Handlers :
        (Done(p) /\ HasPluginInput(p) /\ Validate(Sent(p)).err # NoError) =>
            /\ handler[p].reply.node # NilPtr
            /\ Phase(p) = "Error"
            /\ handler[p].reply.requeue = NilPtr

(* C17: a request with a wrong method, a wrong content type, an unreadable *)
(* or unparsable body, a body lacking the workflow or the template, or a   *)
(* plugin section lacking the plugin key is answered HTTP 400 with no node *)
(* result.                                                                 *)
RequestErrorYields400 ==
    \A p \in Handlers :
        (Done(p) /\ handler[p].request # NilPtr /\ ~HasPluginInput(p)) =>
            /\ handler[p].reply.code = 400
            /\ handler[p].reply.node = NilPtr

-----------------------------------------------------------------------------
(* Properties of the asynchronous invocation. *)

(* A step of the goroutine of some record. *)
RunnerStep == \E a \in DOMAIN runner : runner'[a] # runner[a]

(* C18: a lambda execute request that finds no record creates the record,  *)
(* starts the goroutine of the invocation and replies Running with a 5 s   *)
(* requeue in the same step, before the invocation has run and whatever    *)
(* its outcome; the steps of the invocation change no reply, and its       *)
(* outcome reaches a reply only through a poll that reads the record.      *)
LambdaStartRepliesRunning ==
    [][/\ \A p \in Handlers :
             /\ (handler[p].pc = "lookup" /\ handler'[p].pc # "lookup" /\ Svc(p) = Lambda
                    /\ Workflows[handler[p].wfID] = NilPtr) =>
                   handler'[p].pc = "store"
             /\ (Stored(p) /\ Svc(p) = Lambda) =>
                   /\ Len(heap') = Len(heap) + 1
                   /\ Workflows'[handler[p].wfID] = <<Len(heap')>>
                   /\ heap'[Len(heap')].Status = "RUNNING"
                   /\ runner'[Len(heap')].pc = "spawned"
                   /\ handler[p].call = NilPtr
                   /\ handler'[p].reply.code = 200
                   /\ Phase(p)' = "Running"
                   /\ handler'[p].reply.requeue = <<5>>
             /\ (~Done(p) /\ Done(p)' /\ handler'[p].path \in {"start", "poll"}
                    /\ Svc(p)' = Lambda
                    /\ Phase(p)' \in {"Succeeded", "Error"}) =>
                   /\ handler[p].pc = "lambda_read"
                   /\ handler'[p].path = "poll"
       /\ RunnerStep => handler' = handler
      ]_vars

(* The start has answered Running, the invocation has failed since, and a  *)
(* later poll has read the failure.                                        *)
LambdaStartRepliesRunningWitness ==
    \E p, q \in Handlers :
        /\ Done(p) /\ handler[p].path = "start" /\ Svc(p) = Lambda
        /\ Phase(p) = "Running"
        /\ heap[Workflows[handler[p].wfID][1]].Status = "FAILED"
        /\ Done(q) /\ handler[q].path = "poll" /\ Svc(q) = Lambda
        /\ handler[q].wfID = handler[p].wfID
        /\ Phase(q) = "Error"

(* C19: every failure of the goroutine of an invocation, a panic of any    *)
(* value included, ends with Status FAILED and a message on the record,    *)
(* and none ends the process (a goroutine at "panicked" has ended it).     *)
RunnerFailuresRecorded ==
    \A a \in DOMAIN runner :
        (runner[a].pc \in {"finished", "panicked"} /\ runner[a].outcome # "ok") =>
            /\ heap[a].Status = "FAILED"
            /\ heap[a].Message # EmptyText
            /\ runner[a].pc = "finished"

(* The (status, message) pairs a record holds outside a guarded section:   *)
(* the pair it is created with and the pairs the goroutine writes.         *)
CompletePairs ==
    {[Status |-> NewLambdaWorkflow.Status, Message |-> NewLambdaWorkflow.Message],
     [Status |-> "", Message |-> EmptyText]}
    \cup {InvokeLambdaFunctionAsync(o) : o \in InvokeOutcomes}

PairOf(wf) == [Status |-> wf.Status, Message |-> wf.Message]

(* C20: a lambda poll reads the record only between guarded sections of   *)
(* the goroutine: the pair it reads, and the pair its response is made     *)
(* from, is the pair of creation or a pair written whole by the goroutine. *)
PollReadsWholePair ==
    \A p \in Handlers :
        /\ handler[p].pc = "lambda_read" =>
              /\ lockHolder[handler[p].found[1]] = p
              /\ runner[handler[p].found[1]].pc # "message"
              /\ PairOf(heap[handler[p].found[1]]) \in CompletePairs
        /\ (Done(p) /\ handler[p].path = "poll" /\ Svc(p) = Lambda) =>
              \E pair \in CompletePairs :
                  handler[p].resp =
                      CheckLambdaFunctionExecution(PluginWorkflow(EmptyID, pair.Status, pair.Message))

(* A poll that found the record locked by the goroutine has read the       *)
(* failure the goroutine wrote.                                            *)
PollReadsWholePairWitness ==
    \E p \in Handlers :
        /\ Done(p)
        /\ handler[p].path = "poll"
        /\ Svc(p) = Lambda
        /\ handler[p].held
        /\ handler[p].resp.Status = 2
        /\ handler[p].resp.Message = <<"aws lambda invocation failed: ">> \o AwsError

(* C21: the record of an invocation starts as RUNNING; its goroutine writes *)
(* it once, to SUCCEEDED with the packed output of Invoke as the message   *)
(* or to FAILED, inside one guarded section; once the goroutine has ended  *)
(* the record never changes; and a step of the goroutine changes nothing   *)
(* but its own record: not the registry, not a handler, not another record.*)
SingleTerminalUpdate ==
    [][/\ \A a \in DOMAIN runner :
             /\ runner[a].pc = "spawned" => heap[a].Status = "RUNNING"
             /\ heap'[a] # heap[a] =>
                   /\ runner'[a] # runner[a]
                   /\ heap'[a].ID = heap[a].ID
                   /\ \/ /\ runner[a].pc = "spawned"
                         /\ heap[a].Status = "RUNNING"
                         /\ heap'[a].Status \in {"SUCCEEDED", "FAILED"}
                      \/ /\ runner[a].pc = "message"
                         /\ runner'[a].pc = "finished"
                         /\ heap'[a].Status = heap[a].Status
                         /\ heap'[a].Status = "SUCCEEDED" =>
                               heap'[a].Message = Descriptor("InvokeOutput")
             /\ runner[a].pc \in {"finished", "panicked", "none"} =>
                   /\ heap'[a] = heap[a]
                   /\ runner'[a] = runner[a]
       /\ RunnerStep =>
             /\ Workflows' = Workflows
             /\ handler' = handler
             /\ Len(heap') = Len(heap)
             /\ \A b \in DOMAIN runner : runner'[b] = runner[b] => heap'[b] = heap[b]
      ]_vars

(* Two invocations have ended, one with SUCCEEDED and the packed output,   *)
(* one with FAILED.                                                        *)
SingleTerminalUpdateWitness ==
    \E a, b \in DOMAIN runner :
        /\ runner[a].pc = "finished"
        /\ heap[a].Status = "SUCCEEDED"
        /\ heap[a].Message = Descriptor("InvokeOutput")
        /\ runner[b].pc = "finished"
        /\ heap[b].Status = "FAILED"

-----------------------------------------------------------------------------
(* Properties of the derived resource identifier and of the name fields. *)

(* The four templates of Validate as a function of the service, the region, *)
(* the account and the name and of nothing else.                           *)
ArnOf(svc, region, account, name) ==
    CASE svc = SageMaker -> <<"arn:aws:sagemaker:", region, ":", account, ":pipeline/", name>>
      [] svc = Glue -> <<"arn:aws:glue:", region, ":", account, ":job/", name>>
      [] svc = StepFunctions -> <<"arn:aws:states:", region, ":", account, ":stateMachine:", name>>
      [] svc = Lambda -> <<"arn:aws:lambda:", region, ":", account, ":function:", name>>

(* C22: for every request that passes validation the derived resource      *)
(* identifier is the template of the service filled with the region, the   *)
(* account and the name of the service, whatever resource_arn and other    *)
(* fields the request carried (so two requests that agree on the four      *)
(* values get the same identifier), and validating the request again       *)
(* leaves the same identifier.                                             *)
DerivedArnDeterministic ==
    /\ (Len(fout) >= 1 /\ fout[1].err = NoError) =>
          fout[1].req.ResourceArn =
              ArnOf(fin.ServiceName, fin.RegionName, fin.AccountID, RequiredName(fin))
    /\ (Len(fout) = 2 /\ fout[1].err = NoError) =>
          /\ fout[2].err = NoError
          /\ fout[2].req.ResourceArn = fout[1].req.ResourceArn

(* A request that supplied a resource_arn and a second name field has been *)
(* validated twice and carries the identifier of its own job.              *)
DerivedArnDeterministicWitness ==
    /\ Len(fout) = 2
    /\ fin.ServiceName = Glue
    /\ fin.AccountID = OtherAccount
    /\ fin.RegionName = OtherRegion
    /\ fin.ResourceArn = SuppliedArn
    /\ fin.PipelineName # ""
    /\ fout[1].err = NoError
    /\ fout[2].req.ResourceArn = <<"arn:aws:glue:", "eu-west-1", ":", "100000000003", ":job/", "MyJob">>

-----------------------------------------------------------------------------
(* Properties of the handling of one request. *)

(* C23: the handling of one request performs at most one collaborator      *)
(* operation (an existence check, a start, a poll or the spawn of one      *)
(* invocation), exactly one when it reaches the dispatch with mock off     *)
(* and is not a lambda poll; an operation that fails ends the handling,    *)
(* so that it is tried again only by a further request.                    *)
NoInternalRetry ==
    \A p \in Handlers :
        /\ handler[p].ops <= 1
        /\ handler[p].call # NilPtr => handler[p].ops = 1
        /\ (handler[p].call # NilPtr /\ handler[p].call[1].outcome # "ok") =>
              /\ Done(p)
              /\ handler[p].pending = NilPtr
        /\ handler[p].path \in {"rejected", "mock"} => handler[p].ops = 0
        /\ (Done(p) /\ handler[p].path \in {"validate", "start"}) => handler[p].ops = 1
        /\ (Done(p) /\ handler[p].path = "poll") =>
              handler[p].ops = IF Svc(p) = Lambda THEN 0 ELSE 1

(* A start has failed and ended its request after the one call; a further  *)
(* request with the same workflow id has started the execution.            *)
NoInternalRetryWitness ==
    \E p, q \in Handlers :
        /\ Done(p) /\ handler[p].path = "start"
        /\ handler[p].call # NilPtr
        /\ handler[p].call[1].outcome = "call_error"
        /\ handler[p].ops = 1
        /\ Done(q) /\ handler[q].path = "start"
        /\ handler[q].wfID = handler[p].wfID
        /\ handler[q].call # NilPtr
        /\ handler[q].call[1].outcome = "ok"
        /\ handler[q].returned # EmptyID
        /\ handler[p].wfID \in failedStarts

(* C24: every HTTP 200 reply carries a node result whose phase is           *)
(* Succeeded, Error or Running, also when the response has the zero        *)
(* status; and the phase is Succeeded only when the operation behind the   *)
(* response reported success: the mock state success, an existence check   *)
(* that succeeded, a poll whose call succeeded and saw the succeeded token *)
(* of its service, or a lambda record at SUCCEEDED; never a start.         *)
SucceededOnlyOnSuccess ==
    \A p \in Handlers :
        (Done(p) /\ handler[p].reply.code = 200) =>
            /\ handler[p].reply.node # NilPtr
            /\ Phase(p) \in {"Succeeded", "Error", "Running"}
            /\ handler[p].resp.Status \notin {1, 3} => Phase(p) = "Error"
            /\ Phase(p) = "Succeeded" =>
                  /\ handler[p].resp.Status = 1
                  /\ handler[p].path \in {"mock", "validate", "poll"}
                  /\ handler[p].path = "mock" => Sent(p).MockState = "success"
                  /\ handler[p].path = "validate" => handler[p].call[1].outcome = "ok"
                  /\ (handler[p].path = "poll" /\ Svc(p) # Lambda) =>
                        /\ handler[p].call[1].outcome = "ok"
                        /\ \A t \in Tokens(Svc(p)) :
                              CheckExecution(Svc(p), "ok", t) = handler[p].resp =>
                                  t = SuccessToken(Svc(p))
                  /\ (handler[p].path = "poll" /\ Svc(p) = Lambda) =>
                        heap[handler[p].found[1]].Status = "SUCCEEDED"

(* A start whose session failed left the zero status and is answered with  *)
(* phase Error, while an existence check that succeeded is answered with   *)
(* phase Succeeded.                                                        *)
SucceededOnlyOnSuccessWitness ==
    \E p, q \in Handlers :
        /\ Done(p) /\ handler[p].path = "start"
        /\ handler[p].resp.Status = 0
        /\ handler[p].reply.code = 200
        /\ Phase(p) = "Error"
        /\ Done(q) /\ handler[q].path = "validate"
        /\ handler[q].call[1].outcome = "ok"
        /\ Phase(q) = "Succeeded"

(* The service whose name field each of the four fields is, for the fields *)
(* the request populates.                                                  *)
PopulatedNames(req) ==
    {svc \in allowedServiceNames :
        \/ svc = SageMaker /\ req.PipelineName # ""
        \/ svc = Glue /\ req.JobName # ""
        \/ svc = StepFunctions /\ req.StepFunctionName # ""
        \/ svc = Lambda /\ req.LambdaFunctionName # ""}

(* C25: in every request that passes validation exactly one of the four    *)
(* name fields is populated, the one of the request's service.             *)
ExactlyOneNameField ==
    (Len(fout) >= 1 /\ fout[1].err = NoError) =>
        PopulatedNames(fout[1].req) = {fout[1].req.ServiceName}

-----------------------------------------------------------------------------
(* plugin.go: handleHealthCheck. A health reply is the HTTP status code    *)
(* and the JSON object written; the handler reads neither the request nor  *)
(* the ExecutorPlugin it closes over. fin is the request and the registry  *)
(* at the time of the request, fout the reply.                             *)

HealthReply(code, body) == [code |-> code, body |-> body]

(* The handler refusing while an invocation is in flight. *)
handleHealthCheckBusy(registry, method) ==
    IF \E w \in WorkflowIDs : registry[w] = "lambda_running"
    THEN HealthReply(503, << >>)
    ELSE HealthReply(200, <<[key |-> "status_code", value |-> 200]>>)

handleHealthCheck(registry, method) ==
    HealthReply(200, <<[key |-> "status_code", value |-> 200]>>)

(* What the registry holds for a workflow id: nothing, the record of a     *)
(* started Glue job, or the record of an invocation that is in flight,     *)
(* has succeeded or has failed.                                            *)
RecordKinds == {"none", "glue", "lambda_running", "lambda_succeeded", "lambda_failed"}

HealthInputs == [Method : {"GET", "HEAD", "POST"}, Registry : [WorkflowIDs -> RecordKinds]]

RecordOf(kind, n) ==
    CASE kind = "glue" -> PluginWorkflow(<<Glue, n>>, "", EmptyText)
      [] kind = "lambda_running" -> NewLambdaWorkflow
      [] kind = "lambda_succeeded" ->
            PluginWorkflow(EmptyID, InvokeLambdaFunctionAsync("ok").Status,
                           InvokeLambdaFunctionAsync("ok").Message)
      [] kind = "lambda_failed" ->
            PluginWorkflow(EmptyID, InvokeLambdaFunctionAsync("call_error").Status,
                           InvokeLambdaFunctionAsync("call_error").Message)

RunnerOf(kind) ==
    CASE kind = "glue" -> NoRunner
      [] kind = "lambda_running" -> [NoRunner EXCEPT !.pc = "spawned"]
      [] kind = "lambda_succeeded" -> [pc |-> "finished", outcome |-> "ok"]
      [] kind = "lambda_failed" -> [pc |-> "finished", outcome |-> "call_error"]

(* The workflow ids that have a record, in the order the records were made. *)
Present(registry) ==
    (IF registry["wf-a"] # "none" THEN <<"wf-a">> ELSE << >>)
        \o (IF registry["wf-b"] # "none" THEN <<"wf-b">> ELSE << >>)

AddressOf(registry, w) == CHOOSE a \in 1 .. Len(Present(registry)) : Present(registry)[a] = w

InitHealth ==
    /\ fin \in HealthInputs
    /\ heap = [a \in 1 .. Len(Present(fin.Registry)) |->
                  RecordOf(fin.Registry[Present(fin.Registry)[a]], a)]
    /\ Workflows = [w \in WorkflowIDs |->
                       IF fin.Registry[w] = "none" THEN NilPtr
                       ELSE Ptr(AddressOf(fin.Registry, w))]
    /\ lockHolder = [a \in 1 .. Len(Present(fin.Registry)) |-> ""]
    /\ runner = [a \in 1 .. Len(Present(fin.Registry)) |->
                    RunnerOf(fin.Registry[Present(fin.Registry)[a]])]
    /\ handler = [p \in Handlers |-> IdleHandler]
    /\ starts = [w \in WorkflowIDs |->
                    CASE fin.Registry[w] = "none" -> {}
                      [] fin.Registry[w] = "glue" -> {<<Glue, AddressOf(fin.Registry, w)>>}
                      [] OTHER -> {<<Lambda, AddressOf(fin.Registry, w)>>}]
    /\ failedStarts = {}
    /\ recorded = [w \in WorkflowIDs |->
                      IF fin.Registry[w] = "none" THEN {} ELSE {AddressOf(fin.Registry, w)}]
    /\ nextExec = Len(Present(fin.Registry))
    /\ nreq = Len(Present(fin.Registry))
    /\ crashed = FALSE
    /\ fout = << >>
    /\ native = NotStarted

HealthCheck ==
    /\ Len(fout) = 0
    /\ fout' = <<handleHealthCheck(fin.Registry, fin.Method)>>
    /\ UNCHANGED <<Workflows, heap, lockHolder, runner, handler, starts, failedStarts,
                   recorded, nextExec, nreq, crashed, fin, native>>

NextHealth == HealthCheck

SpecHealth == InitHealth /\ [][NextHealth]_vars

(* C26: the health check answers HTTP 200 with the JSON object             *)
(* {"status_code": 200} whatever the registry holds and whatever           *)
(* invocation is in flight, and leaves the registry and its records as     *)
(* they were.                                                              *)
HealthAlwaysOK ==
    Len(fout) = 1 =>
        /\ fout[1].code = 200
        /\ fout[1].body = <<[key |-> "status_code", value |-> 200]>>
        /\ \A w \in WorkflowIDs :
              /\ (Workflows[w] = NilPtr) <=> (fin.Registry[w] = "none")
              /\ Workflows[w] # NilPtr =>
                    heap[Workflows[w][1]] = RecordOf(fin.Registry[w], Workflows[w][1])
        /\ Len(heap) = Len(Present(fin.Registry))

(* A GET answered while one invocation is in flight and a Glue job has a record. *)
HealthAlwaysOKWitness ==
    /\ Len(fout) = 1
    /\ fin.Method = "GET"
    /\ fin.Registry["wf-a"] = "lambda_running"
    /\ fin.Registry["wf-b"] = "glue"
    /\ runner[Workflows["wf-a"][1]].pc = "spawned"
    /\ fout[1].code = 200

-----------------------------------------------------------------------------
(* Properties of the registry across services. *)

(* C27: a poll of a poll-based service is made with an execution id that   *)
(* a start of that same service returned, and a lambda poll reads a record *)
(* a lambda start created, also when the requests of one workflow id name  *)
(* different services.                                                     *)
PollUsesOwnExecution ==
    \A p \in Handlers :
        /\ (handler[p].call # NilPtr /\ handler[p].call[1].op = "poll") =>
              /\ handler[p].call[1].arg # EmptyID
              /\ handler[p].call[1].arg[1] = Svc(p)
        /\ (handler[p].pc \in {"lambda_lock", "lambda_read"}
               \/ (Done(p) /\ handler[p].path = "poll" /\ Svc(p) = Lambda)) =>
              runner[handler[p].found[1]].pc # "none"

-----------------------------------------------------------------------------
(* status.go: the enumeration PluginWorkflowStatus and its String method. *)

UNKNOWN == 0

SUCCESS == 1

RUNNING == 2

ERROR == 3

StatusString(m) ==
    CASE m = SUCCESS -> "success"
      [] m = RUNNING -> "running"
      [] m = ERROR -> "error"
      [] OTHER -> "PluginWorkflowStatus(n)"

(* The phase an outcome of the enumeration is replied with. *)
PhaseNamed(name) ==
    CASE name = "success" -> "Succeeded"
      [] name = "running" -> "Running"
      [] name = "error" -> "Error"
      [] OTHER -> "Error"

(* C28: the status a service operation writes reads the same in the        *)
(* enumeration and in the reply: a response whose status is RUNNING is     *)
(* replied with phase Running, one whose status is ERROR with phase Error, *)
(* and String() of the status names the outcome of the replied phase.      *)
StatusAgreesWithEnum ==
    Len(fout) = 2 =>
        /\ fout[1].Status = RUNNING => fout[2].node[1].phase = "Running"
        /\ fout[1].Status = ERROR => fout[2].node[1].phase = "Error"
        /\ fout[2].node[1].phase = PhaseNamed(StatusString(fout[1].Status))

-----------------------------------------------------------------------------
(* Properties of the requeue of a reply. *)

(* C29: an HTTP 200 reply carries a requeue duration exactly when its      *)
(* phase is Running: 5 s when the lambda start or the lambda poll made the *)
(* response, 60 s for the poll-based services and for mock.                *)
RequeueDurationIffRunning ==
    \A p \in Handlers :
        (Done(p) /\ handler[p].reply.code = 200) =>
            /\ (handler[p].reply.requeue # NilPtr) <=> (Phase(p) = "Running")
            /\ Phase(p) = "Running" =>
                  handler[p].reply.requeue =
                      IF handler[p].path \in {"start", "poll"} /\ Svc(p) = Lambda
                      THEN Ptr(Seconds(5)) ELSE Ptr(Seconds(60))

(* A lambda start answered Running with 5 s, a mock request answered       *)
(* Running with the default of 60 s.                                       *)
RequeueDurationIffRunningWitness ==
    \E p, q \in Handlers :
        /\ Done(p) /\ handler[p].path = "start" /\ Svc(p) = Lambda
        /\ handler[p].reply.requeue = Ptr(Seconds(5))
        /\ Done(q) /\ handler[q].path = "mock"
        /\ handler[q].resp.RequeueDuration = NilPtr
        /\ Phase(q) = "Running"
        /\ handler[q].reply.requeue = Ptr(Seconds(60))

-----------------------------------------------------------------------------
(* Properties of a failed invocation. *)

(* The goroutine of some record stored under workflow id w has recorded    *)
(* FAILED.                                                                 *)
FailedRecorded(w) ==
    \E a \in recorded[w] : runner[a].pc = "finished" /\ heap[a].Status = "FAILED"

(* C30: once the goroutine of an invocation has recorded FAILED for a      *)
(* workflow id, no invocation is started for that id any more, and every   *)
(* lambda execute request that reads the registry from then on is answered *)
(* with phase Error and the recorded message.                              *)
FailedInvocationSticky ==
    [][\A p \in Handlers :
          /\ (Stored(p) /\ Svc(p) = Lambda) => ~FailedRecorded(handler[p].wfID)
          /\ (handler[p].pc = "lookup" /\ handler'[p].pc # "lookup" /\ Svc(p) = Lambda
                 /\ FailedRecorded(handler[p].wfID)) =>
                /\ handler'[p].pc = "lambda_lock"
                /\ heap[handler'[p].found[1]].Status = "FAILED"
          /\ (handler[p].pc = "lambda_read" /\ Done(p)' /\ Svc(p) = Lambda
                 /\ heap[handler[p].found[1]].Status = "FAILED") =>
                /\ Phase(p)' = "Error"
                /\ handler'[p].reply.node[1].message = heap[handler[p].found[1]].Message
      ]_vars

-----------------------------------------------------------------------------
(* The lambda path on its own: execute requests for one lambda function    *)
(* and one workflow id, the goroutines of the invocations, and the         *)
(* scheduling of Go: a goroutine that can take a step takes one            *)
(* eventually, and so does a handler.                                      *)

MaxLambdaRequests == 3

LambdaExecute == WellFormed("wf-a", TemplateRequest(Lambda, "execute", FALSE, ""))

ReceiveLambda(p) ==
    /\ nreq < MaxLambdaRequests
    /\ nreq' = nreq + 1
    /\ Serve(p, LambdaExecute)

HandlerStep(p) == Lookup(p) \/ Store(p) \/ LambdaLock(p) \/ LambdaRead(p) \/ Finish(p)

GoroutineStep(a) ==
    /\ a \in DOMAIN runner
    /\ \/ \E o \in InvokeOutcomes : RunnerSetStatus(a, o)
       \/ RunnerSetMessage(a)

NextAsync ==
    \/ \E p \in Handlers : ReceiveLambda(p)
    \/ \E p \in Handlers : Lookup(p)
    \/ \E p \in Handlers : Store(p)
    \/ \E p \in Handlers : LambdaLock(p)
    \/ \E p \in Handlers : LambdaRead(p)
    \/ \E p \in Handlers : Finish(p)
    \/ \E a \in DOMAIN runner, o \in InvokeOutcomes : RunnerSetStatus(a, o)
    \/ \E a \in DOMAIN runner : RunnerSetMessage(a)
    \/ \E a \in DOMAIN runner, v \in PanicValues : RunnerPanic(a, v)
    \/ Crash

SpecAsync ==
    /\ Init
    /\ [][NextAsync]_vars
    /\ \A p \in Handlers : WF_vars(HandlerStep(p))
    /\ \A a \in 1 .. MaxLambdaRequests : WF_vars(GoroutineStep(a))

(* The record at address a holds SUCCEEDED or FAILED, written whole. *)
Terminal(a) ==
    /\ a \in DOMAIN runner
    /\ runner[a].pc = "finished"
    /\ heap[a].Status \in {"SUCCEEDED", "FAILED"}

(* C31: once a lambda execute request has started the goroutine of the     *)
(* invocation, and unless the process ends, the record comes to hold       *)
(* SUCCEEDED or FAILED; and from the moment a record of the workflow id    *)
(* holds one of them, every lambda execute request that reads the registry *)
(* for that id finds a record in that state and is answered with phase     *)
(* Succeeded or Error, not Running.                                        *)
AsyncReachesTerminal ==
    /\ \A a \in 1 .. MaxLambdaRequests :
          (a \in DOMAIN runner /\ runner[a].pc = "spawned") ~> (crashed \/ Terminal(a))
    /\ [][\A p \in Handlers :
            /\ (handler[p].pc = "lookup" /\ handler'[p].pc # "lookup"
                   /\ \E a \in recorded[handler[p].wfID] : Terminal(a)) =>
                  /\ handler'[p].found # NilPtr
                  /\ Terminal(handler'[p].found[1])
            /\ (handler[p].pc = "lambda_read" /\ Done(p)'
                   /\ Terminal(handler[p].found[1])) =>
                  Phase(p)' \in {"Succeeded", "Error"}
        ]_vars

-----------------------------------------------------------------------------
(* The poll path on its own: the engine sends execute requests for one     *)
(* step of a poll-based service again and again, the service moves the     *)
(* execution through its statuses until a final one, and each poll reads   *)
(* the status the service reports at that moment.                          *)

TerminalTokens(svc) == {SuccessToken(svc)} \cup FailureTokens(svc)

FirstToken(svc) == IF svc = SageMaker THEN "Executing" ELSE "RUNNING"

PollRequest == WellFormed("wf-a", TemplateRequest(fin.svc, "execute", FALSE, ""))

InitPoll ==
    /\ Workflows = [w \in WorkflowIDs |-> NilPtr]
    /\ heap = << >>
    /\ lockHolder = << >>
    /\ runner = << >>
    /\ handler = [p \in Handlers |-> IdleHandler]
    /\ starts = [w \in WorkflowIDs |-> {}]
    /\ failedStarts = {}
    /\ recorded = [w \in WorkflowIDs |-> {}]
    /\ nextExec = 0
    /\ nreq = 0
    /\ crashed = FALSE
    /\ fin \in [svc : PollServices]
    /\ fout = << >>
    /\ native = FirstToken(fin.svc)

(* The engine sends the request of the step once more. *)
ReceivePoll(p) ==
    /\ Serve(p, PollRequest)
    /\ UNCHANGED nreq

(* The poll reads the status the service reports now. *)
PollNative(p, outcome) == PollCall(p, outcome, native)

(* The service moves the started execution to another status; a final     *)
(* status stays.                                                           *)
Advance(token) ==
    /\ starts["wf-a"] # {}
    /\ native \notin TerminalTokens(fin.svc)
    /\ token \in Tokens(fin.svc) \ {native}
    /\ native' = token
    /\ UNCHANGED <<Workflows, heap, lockHolder, runner, handler, starts, failedStarts, recorded,
                   nextExec, nreq, crashed, fin, fout>>

NextPoll ==
    \/ \E p \in Handlers : ReceivePoll(p)
    \/ \E p \in Handlers : Lookup(p)
    \/ \E p \in Handlers, o \in CallOutcomes, fresh \in BOOLEAN : StartCall(p, o, fresh)
    \/ \E p \in Handlers : Store(p)
    \/ \E p \in Handlers, o \in CallOutcomes : PollNative(p, o)
    \/ \E p \in Handlers : Finish(p)
    \/ \E t \in PollTokens : Advance(t)
    \/ Crash

PollStep(p) ==
    \/ Lookup(p)
    \/ \E o \in CallOutcomes, fresh \in BOOLEAN : StartCall(p, o, fresh)
    \/ Store(p)
    \/ \E o \in CallOutcomes : PollNative(p, o)
    \/ Finish(p)

(* The engine keeps sending the request, every handler that can take a     *)
(* step takes one, and the service answers a status read again and again.  *)
SpecPoll ==
    /\ InitPoll
    /\ [][NextPoll]_vars
    /\ WF_vars(\E p \in Handlers : ReceivePoll(p))
    /\ \A p \in Handlers : WF_vars(PollStep(p))
    /\ SF_vars(\E p \in Handlers : PollNative(p, "ok"))

(* A start of the step has succeeded. *)
Started == starts["wf-a"] # {}

(* A request of the step is answered, from a status the service reported, *)
(* with the given phase.                                                   *)
PollReplied(phase) ==
    \E p \in Handlers :
        /\ Done(p)
        /\ handler[p].path = "poll"
        /\ handler[p].call[1].outcome = "ok"
        /\ Phase(p) = phase

(* C32: for a poll-based service, after a successful start, when the       *)
(* status of the execution has become the succeeded token (a               *)
(* terminal-failure token) for good and the engine keeps sending the       *)
(* request, some request is eventually answered with phase Succeeded       *)
(* (Error).                                                                *)
PollReachesTerminal ==
    /\ <>(Started /\ native = SuccessToken(fin.svc)) => <>PollReplied("Succeeded")
    /\ <>(Started /\ native \in FailureTokens(fin.svc)) => <>PollReplied("Error")

-----------------------------------------------------------------------------
(* The request a handler serves is one the handler is to reject: a request *)
(* error, or an input that fails validation.                               *)
RejectedRequest(p) ==
    /\ handler[p].request # NilPtr
    /\ LET r == handler[p].request[1] IN
          \/ r.Method # "POST"
          \/ r.ContentType # "application/json"
          \/ r.Body # "parsed"
          \/ ~r.HasWorkflow
          \/ ~r.HasTemplate
          \/ ~r.HasPluginKey
          \/ Validate(r.Input).err # NoError

(* The request a handler serves is an admitted validate request. *)
ValidateRequest(p) ==
    /\ handler[p].request # NilPtr
    /\ ~RejectedRequest(p)
    /\ Sent(p).Action = "validate"

(* C33: a rejected request (request error or validation failure) calls no  *)
(* collaborator operation and leaves the registry as it was; a validate    *)
(* request never reads the registry and none of its steps changes it,      *)
(* whatever the existence check returns; and an entry is added to the      *)
(* registry only by an execute request that found no record.               *)
TrackerFrame ==
    [][/\ \A p \in Handlers :
            /\ RejectedRequest(p)' =>
                  /\ Done(p)'
                  /\ handler'[p].call = NilPtr
                  /\ handler'[p].ops = 0
                  /\ handler'[p].found = NilPtr
                  /\ handler'[p].pending = NilPtr
            /\ (handler[p].pc = "idle" /\ RejectedRequest(p)') =>
                  /\ Workflows' = Workflows
                  /\ heap' = heap
                  /\ recorded' = recorded
            /\ ValidateRequest(p)' =>
                  /\ handler'[p].pc \in {"exists", "done"}
                  /\ handler'[p].found = NilPtr
                  /\ handler'[p].pending = NilPtr
            /\ (handler'[p] # handler[p] /\ (ValidateRequest(p) \/ ValidateRequest(p)')) =>
                  /\ Workflows' = Workflows
                  /\ heap' = heap
                  /\ recorded' = recorded
       /\ (Workflows' # Workflows \/ Len(heap') # Len(heap)) =>
            \E p \in Handlers :
                /\ handler[p].pc = "store"
                /\ Done(p)'
                /\ ~RejectedRequest(p)
                /\ Sent(p).Action = "execute"
                /\ handler[p].found = NilPtr
                /\ Workflows' = [Workflows EXCEPT ![handler[p].wfID] = Ptr(Len(heap) + 1)]
      ]_vars

(* One request has been rejected by the validation and the existence check *)
(* of a validate request has failed.                                       *)
TrackerFrameWitness ==
    \E p, q \in Handlers :
        /\ p # q
        /\ RejectedRequest(p)
        /\ handler[p].request[1].Body = "parsed"
        /\ handler[p].request[1].HasWorkflow
        /\ handler[p].request[1].HasPluginKey
        /\ ValidateRequest(q)
        /\ Done(q)
        /\ handler[q].path = "validate"
        /\ handler[q].call[1].outcome # "ok"

-----------------------------------------------------------------------------
(* The admission of handleTemplateExecute as a function of the request:    *)
(* every plugin input of ValidateInputs in a well-formed request, and the  *)
(* requests that fail before the plugin input is read.                     *)

AdmitInputs ==
    {WellFormed("wf-a", input) : input \in ValidateInputs}
    \cup {Malformed("GET", "application/json", "parsed", TRUE, TRUE),
          Malformed("POST", "text/plain", "parsed", TRUE, TRUE),
          Malformed("POST", "application/json", "unreadable", TRUE, TRUE),
          Malformed("POST", "application/json", "unparsable", TRUE, TRUE),
          Malformed("POST", "application/json", "parsed", FALSE, TRUE),
          Malformed("POST", "application/json", "parsed", TRUE, FALSE)}

InitAdmit ==
    /\ Workflows = [w \in WorkflowIDs |-> NilPtr]
    /\ heap = << >>
    /\ lockHolder = << >>
    /\ runner = << >>
    /\ handler = [p \in Handlers |-> IdleHandler]
    /\ starts = [w \in WorkflowIDs |-> {}]
    /\ failedStarts = {}
    /\ recorded = [w \in WorkflowIDs |-> {}]
    /\ nextExec = 0
    /\ nreq = 0
    /\ crashed = FALSE
    /\ fin \in AdmitInputs
    /\ fout = << >>
    /\ native = NotStarted

(* The handler runs up to the dispatch; a request that returned before it  *)
(* gets its reply from the deferred builder.                               *)
ApplyAdmit ==
    /\ Len(fout) = 0
    /\ LET a == Admit(fin) IN
          fout' = <<[admit |-> a,
                     reply |-> IF a.returned THEN BuildReply(a.resp) ELSE NoReply]>>
    /\ UNCHANGED <<Workflows, heap, lockHolder, runner, handler, starts, failedStarts,
                   recorded, nextExec, nreq, crashed, fin, native>>

NextAdmit == ApplyAdmit

SpecAdmit == InitAdmit /\ [][NextAdmit]_vars

(* The plugin input misses or has unsupported one of the fields the        *)
(* validation checks before the mock state.                                *)
FieldDefect(req) == CommonDefect(req) \/ RequiredName(req) = ""

(* What the handler returns for a request whose plugin input fails         *)
(* validation with the mock switch off.                                    *)
NonMockRejection(req) ==
    Rejected(WithArgs(ErrRequestInputMalformedError,
                      ArgError(Validate([req EXCEPT !.Mock = FALSE]).err)))

(* C34: the validation comes before the mock switch: a mock request whose   *)
(* account, service, action, region or required name field is missing or   *)
(* unsupported is rejected exactly as the same request with mock off, and  *)
(* is never answered by the mock switch.                                   *)
ValidationPrecedesMock ==
    (/\ Len(fout) = 1
     /\ fin.Body = "parsed" /\ fin.Method = "POST" /\ fin.ContentType = "application/json"
     /\ fin.HasWorkflow /\ fin.HasTemplate /\ fin.HasPluginKey
     /\ fin.Input.Mock
     /\ FieldDefect(fin.Input)) =>
        /\ fout[1].admit = NonMockRejection(fin.Input)
        /\ fout[1].admit.resp.RequestError # NoError
        /\ fout[1].reply = BuildReply(NonMockRejection(fin.Input).resp)
        /\ \A ms \in {"success", "error", "running"} :
              fout[1].admit.resp # MockResponse(ms)

(* A mock request for a Glue job with mock state success and no job name   *)
(* has been rejected.                                                      *)
ValidationPrecedesMockWitness ==
    /\ Len(fout) = 1
    /\ fin.HasPluginKey /\ fin.HasWorkflow /\ fin.Body = "parsed" /\ fin.Method = "POST"
    /\ fin.Input.Mock
    /\ fin.Input.MockState = "success"
    /\ fin.Input.ServiceName = Glue
    /\ ~CommonDefect(fin.Input)
    /\ fin.Input.JobName = ""
    /\ fout[1].admit.resp.RequestError = Ptr(<<ErrRequestInputMalformedError, "job_name is empty">>)

-----------------------------------------------------------------------------
(* The collaborator calls of the lambda service as functions of the        *)
(* validated request: what the existence check asks for and what the       *)
(* goroutine of the invocation invokes.                                    *)

(* PluginRequest.Parameters: a nil map, an empty map, or a map with        *)
(* entries (key and value, in the order of the keys).                      *)
ParameterMaps == {NilPtr, Ptr(<< >>), Ptr(<<<<"date", "2024-01-01">>>>)}

(* json.Marshal of a map of strings, piece by piece. *)
RECURSIVE MarshalEntries(_)
MarshalEntries(entries) ==
    IF entries = << >> THEN << >>
    ELSE <<"\"", entries[1][1], "\":\"", entries[1][2], "\"">>
         \o (IF Len(entries) > 1 THEN <<",">> ELSE << >>)
         \o MarshalEntries(Tail(entries))

MarshalMap(entries) == <<"{">> \o MarshalEntries(entries) \o <<"}">>

(* lambda.GetFunctionInput of CheckIfLambdaFunctionExists. *)
GetFunctionInput(req) == [FunctionName |-> req.ResourceArn]

(* lambda.InvokeInput of InvokeLambdaFunctionAsync. *)
InvokeInput(req, parameters) ==
    [FunctionName |-> <<req.LambdaFunctionName>>,
     InvocationType |-> "Event",
     LogType |-> "None",
     Payload |-> IF parameters # NilPtr THEN MarshalMap(parameters[1]) ELSE <<"{", "}">>]

InvokeInputs ==
    [input : {req \in ValidateInputs :
                 req.ServiceName = Lambda /\ Validate(req).err = NoError},
     parameters : ParameterMaps]

InitInvoke ==
    /\ Workflows = [w \in WorkflowIDs |-> NilPtr]
    /\ heap = << >>
    /\ lockHolder = << >>
    /\ runner = << >>
    /\ handler = [p \in Handlers |-> IdleHandler]
    /\ starts = [w \in WorkflowIDs |-> {}]
    /\ failedStarts = {}
    /\ recorded = [w \in WorkflowIDs |-> {}]
    /\ nextExec = 0
    /\ nreq = 0
    /\ crashed = FALSE
    /\ fin \in InvokeInputs
    /\ fout = << >>
    /\ native = NotStarted

(* The handler validates the input; the existence check and the invocation *)
(* build their calls from the validated request.                           *)
ApplyInvoke ==
    /\ Len(fout) = 0
    /\ LET req == Validate(fin.input).req IN
          fout' = <<[req |-> req,
                     exists |-> GetFunctionInput(req),
                     invoke |-> InvokeInput(req, fin.parameters)]>>
    /\ UNCHANGED <<Workflows, heap, lockHolder, runner, handler, starts, failedStarts,
                   recorded, nextExec, nreq, crashed, fin, native>>

NextInvoke == ApplyInvoke

SpecInvoke == InitInvoke /\ [][NextInvoke]_vars

(* C35: the goroutine of the invocation invokes the function named by the   *)
(* derived resource identifier of the request, the identifier the          *)
(* existence check of validate asks for, with the parameters of the        *)
(* request as payload, or an empty JSON object when it has none.           *)
InvokeTargetsDerivedArn ==
    Len(fout) = 1 =>
        /\ fout[1].invoke.FunctionName = fout[1].req.ResourceArn
        /\ fout[1].invoke.FunctionName = fout[1].exists.FunctionName
        /\ fout[1].invoke.Payload =
              IF fin.parameters = NilPtr THEN <<"{", "}">> ELSE MarshalMap(fin.parameters[1])

-----------------------------------------------------------------------------
(* The request was rejected by one of the request checks of the handler. *)
RejectedAtCheck == Len(fout) = 1 /\ fout[1].admit.returned /\ fout[1].admit.input = NilPtr

(* C36: WithArgs called to build an error returns a non-nil error with the *)
(* format applied to the arguments ("this is detailed error: foo" for the  *)
(* argument "foo"), and the error the handler assigns from WithArgs where  *)
(* it rejects a request is never nil.                                      *)
WithArgsNeverNil ==
    /\ WithArgs("this is detailed error: %v", ArgString("foo"))
          = Ptr(<<"this is detailed error: %v", "foo">>)
    /\ RejectedAtCheck => fout[1].admit.resp.RequestError # NoError

====
